---- MODULE Spec2Model ----
(***************************************************************************)
(* Verification model of the serial console (uart_250904_0003_.py):        *)
(* prompt tracking, i2cdump capture, slot playback and transmission.       *)
(* Text is modelled by TLA+ strings; a character is a string of length 1.  *)
(***************************************************************************)
EXTENDS Integers, Sequences, FiniteSets, TLC

(***************************************************************************)
(* Bounds of the model                                                     *)
(***************************************************************************)
MaxObserved == 3      \* chunks passed to inc_prompt_if_in in SpecObserve
MaxRunLines == 62     \* lines a device with short rows emits in SpecRx
MaxFullLines == 18    \* lines a device with 16-byte rows emits in SpecRx
MaxWire     == 8      \* the device waits while more than this many characters are unread
MaxOdd      == 1      \* unexpected lines the device may insert in one run
OddWindow   == 2      \* unexpected lines only among the first lines of a run
ShortRun    == 3      \* a run with unexpected lines has at most this many lines
MaxTextLines == 3     \* lines of a text of SpecChunk (after an optional header)
MaxChunk    == 6      \* characters of a chunk in SpecChunk
MaxPrompts  == 2      \* prompts the receiver observes in SpecPlay
MaxTimeout  == 2      \* the largest prompt timeout of SpecPlay, in clock ticks
MaxCommands == 2      \* compare commands typed in SpecCompare
MaxSaves    == 3      \* "/dumpsave" commands typed in SpecDump
MaxRedefs   == 41

(***************************************************************************)
(* Program constants                                                       *)
(***************************************************************************)
PROMPT_PATTERNS == <<"i2c>", "~ #", "# ">>
LAST_ADDR       == "f0"
NO_HEADER       == "#NO_HEADER#"
OverflowBound   == 60

(***************************************************************************)
(* Python string primitives                                                *)
(***************************************************************************)
\* s[i-1:j] with Python's clamping of the indices (i >= 1)
Slice(s, i, j) ==
  IF i > j \/ i > Len(s) THEN ""
  ELSE SubSeq(s, i, IF j > Len(s) THEN Len(s) ELSE j)

Ch(s, i) == Slice(s, i, i)

HexDigits == {"0","1","2","3","4","5","6","7","8","9",
              "a","b","c","d","e","f","A","B","C","D","E","F"}
WsChars   == {" ", "\t", "\r", "\n"}

IsHex(s, i) == i <= Len(s) /\ Ch(s, i) \in HexDigits
IsWs(s, i)  == i <= Len(s) /\ Ch(s, i) \in WsChars

\* str.startswith
StartsWith(s, p) == Slice(s, 1, Len(p)) = p

\* p in s
Contains(s, p) == \E i \in 1..(Len(s) - Len(p) + 1) : Slice(s, i, i + Len(p) - 1) = p

\* str.find: the first index of p in s at or after from, 0 when there is none
RECURSIVE Find(_, _, _)
Find(s, p, from) ==
  IF from + Len(p) - 1 > Len(s) THEN 0
  ELSE IF Slice(s, from, from + Len(p) - 1) = p THEN from
  ELSE Find(s, p, from + 1)

\* str.rstrip('\r')
RECURSIVE RStripCR(_)
RStripCR(s) ==
  IF Len(s) > 0 /\ Ch(s, Len(s)) = "\r" THEN RStripCR(Slice(s, 1, Len(s) - 1)) ELSE s

\* str.lower on the letters that matter for an address
LowerCh(c) ==
  CASE c = "A" -> "a" [] c = "B" -> "b" [] c = "C" -> "c"
    [] c = "D" -> "d" [] c = "E" -> "e" [] c = "F" -> "f" [] OTHER -> c

\* the index of the first non-whitespace character at or after i (Len+1 if none)
RECURSIVE SkipWs(_, _)
SkipWs(s, i) == IF IsWs(s, i) THEN SkipWs(s, i + 1) ELSE i

\* bool(line.strip())
NonBlank(s) == SkipWs(s, 1) <= Len(s)

(***************************************************************************)
(* Prompt tracking                                                         *)
(***************************************************************************)
any_prompt_in(text) ==
  \E k \in DOMAIN PROMPT_PATTERNS :
     PROMPT_PATTERNS[k] # "" /\ Contains(text, PROMPT_PATTERNS[k])

line_is_prompt_start(line) ==
  \E k \in DOMAIN PROMPT_PATTERNS :
     PROMPT_PATTERNS[k] # "" /\ StartsWith(line, PROMPT_PATTERNS[k])

\* the occurrences of the markers in text: <<marker index, position>>
Occurrences(text) ==
  {o \in (DOMAIN PROMPT_PATTERNS) \X (1..Len(text)) :
     Slice(text, o[2], o[2] + Len(PROMPT_PATTERNS[o[1]]) - 1) = PROMPT_PATTERNS[o[1]]}

\* the value of prompt_seq after inc_prompt_if_in(text)
IncPerOccurrence(seq, text) == seq + Cardinality(Occurrences(text))
inc_prompt_if_in(seq, text) ==
  IF Len(PROMPT_PATTERNS) > 0 /\ any_prompt_in(text) THEN seq + 1 ELSE seq

(***************************************************************************)
(* i2cdump capture: the patterns                                           *)
(***************************************************************************)
\* (?:\s+[0-9A-Fa-f]{2}){n}\s*$ from position p
RECURSIVE HeaderCols(_, _, _)
HeaderCols(s, p, n) ==
  LET q == SkipWs(s, p) IN
  IF n = 0 THEN q = Len(s) + 1
  ELSE q > p /\ IsHex(s, q) /\ IsHex(s, q + 1) /\ HeaderCols(s, q + 2, n - 1)

\* _I2C_HEADER_RE = ^\s+00(?:\s+[0-9A-Fa-f]{2}){15}\s*$
I2C_HEADER_RE(s) ==
  LET q == SkipWs(s, 1) IN
  q > 1 /\ Slice(s, q, q + 1) = "00" /\ HeaderCols(s, q + 2, 15)

\* ([0-9A-Fa-f]{2}\s+){0,15}[0-9A-Fa-f]{2}\s*$ from position p, n pairs seen
RECURSIVE RowPairs(_, _, _)
RowPairs(s, p, n) ==
  IsHex(s, p) /\ IsHex(s, p + 1) /\
  LET r == SkipWs(s, p + 2) IN
    \/ r = Len(s) + 1
    \/ r > p + 2 /\ r <= Len(s) /\ n + 1 <= 15 /\ RowPairs(s, r, n + 1)

\* _I2C_DATA_ROW_RE = ^[0-9A-Fa-f]{2}:\s+([0-9A-Fa-f]{2}\s+){0,15}[0-9A-Fa-f]{2}\s*$
I2C_DATA_ROW_RE(s) ==
  IsHex(s, 1) /\ IsHex(s, 2) /\ Ch(s, 3) = ":" /\
  LET q == SkipWs(s, 4) IN q > 4 /\ RowPairs(s, q, 0)

\* re.match(r'^00:\s', line)
BareFirstRow(s) == StartsWith(s, "00:") /\ IsWs(s, 4)

\* line.lower().startswith(_LAST_ADDR + ":")
IsLastAddrCaseSensitive(s) == StartsWith(s, LAST_ADDR \o ":")
IsLastAddr(s) ==
  Len(s) >= 3 /\ LowerCh(Ch(s, 1)) \o LowerCh(Ch(s, 2)) \o LowerCh(Ch(s, 3)) = LAST_ADDR \o ":"

(***************************************************************************)
(* i2cdump capture: the state machine.  A capture state is the record      *)
(*   frag   = _i2c_capture_buffer_fragment                                 *)
(*   active = _i2c_capture_active                                          *)
(*   lines  = _i2c_capture_lines                                           *)
(*   last   = _last_captured_dump (<<>> stands for None)                   *)
(*   log    = the "[dumps] captured" reports printed so far                *)
(***************************************************************************)
NoDump == <<>>

Report(reason, dump) == [reason |-> reason, dump |-> dump]

\* _maybe_finalize_partial(reason)
FinalizeDiscards(st, reason) == [st EXCEPT !.active = FALSE, !.lines = <<>>]
maybe_finalize_partial(st, reason) ==
  IF st.active /\ st.lines # <<>>
  THEN [st EXCEPT !.last = st.lines, !.log = Append(@, Report(reason, st.lines)),
                  !.active = FALSE, !.lines = <<>>]
  ELSE [st EXCEPT !.active = FALSE, !.lines = <<>>]

\* the buffer after one line, lines 387-392
RetainNonBlank(lines, line) == IF NonBlank(line) THEN Append(lines, line) ELSE lines
Retain(lines, line) ==
  LET first == lines[1] IN
  IF I2C_DATA_ROW_RE(line) \/ line = first
  THEN (IF line # first THEN Append(lines, line) ELSE lines)
  ELSE (IF NonBlank(line) THEN Append(lines, line) ELSE lines)

\* len(_i2c_capture_lines) > 60, line 399
OverflowsLate(buf) == Len(buf) > OverflowBound + 1
Overflows(buf) == Len(buf) > OverflowBound

\* the row of the last address has been retained, lines 393-398: the buffer is
\* the dump, and the capture is over
CompleteKeepsBuffer(st, buf) ==
  [st EXCEPT !.last = buf, !.log = Append(@, Report("complete", buf)), !.active = FALSE]
Complete(st, buf) ==
  [st EXCEPT !.last = buf, !.log = Append(@, Report("complete", buf)),
             !.active = FALSE, !.lines = <<>>]

\* the body of "if _i2c_capture_active:" for one line, lines 386-401
CaptureLine(st, line) ==
  LET buf   == Retain(st.lines, line)
      st1   == [st EXCEPT !.lines = buf]
  IN IF IsLastAddr(line)
     THEN Complete(st1, buf)
     ELSE IF Overflows(buf)
     THEN maybe_finalize_partial(st1, "overflow")
     ELSE st1

\* a capture started by a bare first row, lines 380-382: the buffer is the
\* sentinel, and the line falls through to "if _i2c_capture_active:"
StartBareConsumes(st, line) == [st EXCEPT !.active = TRUE, !.lines = <<NO_HEADER>>]
StartBare(st, line) == CaptureLine([st EXCEPT !.active = TRUE, !.lines = <<NO_HEADER>>], line)

\* one iteration of the while loop of _i2c_capture_feed on a complete line
\* (already cut at the newline, before rstrip)
ProcessLine(st, raw) ==
  LET line == RStripCR(raw) IN
  IF Len(PROMPT_PATTERNS) > 0 /\ line_is_prompt_start(line)
  THEN (IF st.active THEN maybe_finalize_partial(st, "prompt") ELSE st)
  ELSE IF ~st.active
  THEN (IF I2C_HEADER_RE(line)
        THEN [st EXCEPT !.active = TRUE, !.lines = <<line>>]
        ELSE IF BareFirstRow(line)
        THEN StartBare(st, line)
        ELSE st)
  ELSE CaptureLine(st, line)

\* the while loop of _i2c_capture_feed: consume every complete line of frag
RECURSIVE DrainLines(_)
DrainLines(st) ==
  LET nl == Find(st.frag, "\n", 1) IN
  IF nl = 0 THEN st
  ELSE DrainLines(ProcessLine([st EXCEPT !.frag = Slice(st.frag, nl + 1, Len(st.frag))],
                              Slice(st.frag, 1, nl - 1)))

\* _i2c_capture_feed(chunk)
FeedDropsFragment(st, chunk) ==
  IF chunk = "" THEN st
  ELSE LET d == DrainLines([st EXCEPT !.frag = chunk]) IN d
i2c_capture_feed(st, chunk) ==
  IF chunk = "" THEN st
  ELSE DrainLines([st EXCEPT !.frag = st.frag \o chunk])

\* the capture state at process start
CaptureInit == [frag |-> "", active |-> FALSE, lines |-> <<>>, last |-> NoDump, log |-> <<>>]

(***************************************************************************)
(* Slot playback: the transmissions of a slot value                        *)
(***************************************************************************)
TOKEN_ENTER == "<ENTER>"
DepthLimit  == 40
CHAR_DELAY_MS == 0
SAFE_SCRIPT_CHAR_DELAY_MS == 1

\* data.split(TOKEN_ENTER)
RECURSIVE Split(_, _)
Split(data, token) ==
  LET k == Find(data, token, 1) IN
  IF k = 0 THEN <<data>>
  ELSE <<Slice(data, 1, k - 1)>> \o Split(Slice(data, k + Len(token), Len(data)), token)

\* segment.splitlines(), for the line boundaries \n, \r and \r\n
RECURSIVE SplitLinesFrom(_, _, _)
SplitLinesFrom(s, start, i) ==
  IF i > Len(s) THEN (IF start <= Len(s) THEN <<Slice(s, start, Len(s))>> ELSE <<>>)
  ELSE IF Ch(s, i) = "\r" /\ Ch(s, i + 1) = "\n"
  THEN <<Slice(s, start, i - 1)>> \o SplitLinesFrom(s, i + 2, i + 2)
  ELSE IF Ch(s, i) \in {"\n", "\r"}
  THEN <<Slice(s, start, i - 1)>> \o SplitLinesFrom(s, i + 1, i + 1)
  ELSE SplitLinesFrom(s, start, i + 1)

splitlines(s) == SplitLinesFrom(s, 1, 1)

\* what play_slot_recursive sends: a line (send_line) or the terminator alone
\* (send_enter_only)
SendLine(text) == [op |-> "line", text |-> text]
SendEnter      == [op |-> "enter", text |-> ""]

\* the inner "for line in lines" of the raw branch
RECURSIVE LineOps(_)
LineOps(lines) ==
  IF lines = <<>> THEN <<>>
  ELSE LET line == Head(lines) IN
       (IF ~NonBlank(line) /\ line # "" THEN <<SendEnter>>
        ELSE IF line # "" THEN <<SendLine(line)>>
        ELSE <<>>) \o LineOps(Tail(lines))

\* the "for pi,segment in enumerate(parts)" of the raw branch, from segment pi
RECURSIVE SegmentOps(_, _)
SegmentOps(parts, pi) ==
  IF pi > Len(parts) THEN <<>>
  ELSE LET segment == parts[pi]
           lines   == splitlines(segment)
       IN (IF lines = <<>> /\ segment = "" THEN <<SendEnter>> ELSE <<>>)
          \o LineOps(lines)
          \o (IF pi < Len(parts) THEN <<SendEnter>> ELSE <<>>)
          \o SegmentOps(parts, pi + 1)

\* the sends of a raw slot, in order
RawOps(data) == SegmentOps(Split(data, TOKEN_ENTER), 1)

\* line_suffix()
line_suffix(mode) ==
  CASE mode = "CR" -> "\r" [] mode = "CRLF" -> "\r\n" [] mode = "LF" -> "\n" [] OTHER -> ""

\* the bytes handed to send_bytes by send_line / send_enter_only
OpBytes(o, mode) == IF o.op = "line" THEN o.text \o line_suffix(mode) ELSE line_suffix(mode)

(***************************************************************************)
(* State                                                                   *)
(***************************************************************************)
VARIABLES
  prompt_seq,                    \* prompt_seq
  i2c_capture_buffer_fragment,   \* _i2c_capture_buffer_fragment
  i2c_capture_active,            \* _i2c_capture_active
  i2c_capture_lines,             \* _i2c_capture_lines
  last_captured_dump,            \* _last_captured_dump
  captured_log,                  \* the "[dumps] captured" reports printed
  wire,                          \* text sent by the device, not yet read by the receiver
  dev,                           \* the device: what it emits next
  run,                           \* history: the lines the device has emitted
  fed,                           \* history: the text the receiver has read
  observed,                      \* history: the chunks passed to inc_prompt_if_in
  slot_cmds,                     \* slot_cmds: slot key -> slot value
  global_combos,                 \* global_combos: digit -> sequence of slot keys
  FAST_PLAY_MODE,                \* FAST_PLAY_MODE
  SCRIPT_WAIT_PROMPT,            \* SCRIPT_WAIT_PROMPT
  SCRIPT_PROMPT_TIMEOUT_SEC,     \* SCRIPT_PROMPT_TIMEOUT_SEC, in clock ticks
  enter_mode,                    \* enter_mode
  prompt_lock,                   \* prompt_lock: "free" or the thread that holds it
  send_lock,                     \* send_lock: "free" or the thread that holds it
  rx,                            \* the receiver thread: its position and its chunk
  pc,                            \* position of the command loop and of the hotkey thread
  tx,                            \* send_bytes of each thread: data, index i, per-character mode
  stack,                         \* the play_slot_recursive calls in progress
  visited,                       \* visited
  script_ctx,                    \* the ScriptContext of the playback
  pending,                       \* the send the playback is about to make
  wait,                          \* wait_for_next_prompt: prev_seq, cur, time left to the deadline
  emitted,                       \* history: the sends of the current playback
  waitlog,                       \* history: the waits of the current playback
  ctx0,                          \* history: the counter read by ScriptContext()
  invoked,                       \* history: what the current playback was started with
  i2c_dump_slots,                \* i2c_dump_slots: digit -> stored dump, <<>> when empty
  dumps_file,                    \* the content of I2C_DUMP_SAVE_FILE
  dumpcmp_results,               \* _dumpcmp_results
  results_file,                  \* the content of DUMPCMP_RESULTS_FILE
  cmp_history,                   \* cmp_history
  history_file,                  \* the content of DUMPCMP_HISTORY_FILE
  batch,                         \* multi_dump_compare in progress: pairs, position, session_stats
  matrices,                      \* history: mA and mB of the latest comparison
  stored,                        \* history: records and history entries appended so far, commands run
  committed,                     \* history: the digits "/dumpsave" was given, in order
  disk,                          \* the storage under the files: "sound" or "faulty"
  wrote,                         \* history: how the write of the latest command ended
  alive                          \* the command loop runs: no exception has left a command

rxVars == <<prompt_seq, i2c_capture_buffer_fragment, i2c_capture_active, i2c_capture_lines,
            last_captured_dump, captured_log>>
envVars == <<wire, dev, run, fed, observed>>
dumpVars == <<i2c_dump_slots, dumps_file, dumpcmp_results, results_file, cmp_history,
              history_file, batch, matrices, stored, committed, disk, wrote, alive>>
\* what the command loop owns and neither the receiver nor a playback writes
cfgVars == <<slot_cmds, global_combos, FAST_PLAY_MODE, SCRIPT_WAIT_PROMPT,
             SCRIPT_PROMPT_TIMEOUT_SEC, enter_mode, dumpVars>>
lockVars == <<prompt_lock, send_lock>>
playVars == <<stack, visited, script_ctx, pending, wait, emitted, waitlog, ctx0, invoked>>
threadVars == <<rx, pc, tx, playVars>>
consoleVars == <<cfgVars, lockVars, threadVars>>
vars == <<rxVars, envVars, consoleVars>>

\* the capture globals as one record
CapState ==
  [frag |-> i2c_capture_buffer_fragment, active |-> i2c_capture_active,
   lines |-> i2c_capture_lines, last |-> last_captured_dump, log |-> captured_log]

SetCapState(st) ==
  /\ i2c_capture_buffer_fragment' = st.frag
  /\ i2c_capture_active' = st.active
  /\ i2c_capture_lines' = st.lines
  /\ last_captured_dump' = st.last
  /\ captured_log' = st.log

\* the state after the constructor-time assignments (module level and main)
RxInit ==
  /\ prompt_seq = 0
  /\ i2c_capture_buffer_fragment = ""
  /\ i2c_capture_active = FALSE
  /\ i2c_capture_lines = <<>>
  /\ last_captured_dump = NoDump
  /\ captured_log = <<>>

(***************************************************************************)
(* The console: registries, flags, locks and threads                       *)
(***************************************************************************)
Threads  == {"cmd", "hot"}
SlotKeys == {"a", "b"}

\* slot values: None, {"type":"enter"}, {"type":"raw","data":d}, {"type":"combo","seq":q}.
\* id stands for id(v), the identity of the dict object.
NoneValue      == [id |-> 0, type |-> "none",  data |-> "", seq |-> ""]
EnterValue(n)  == [id |-> n, type |-> "enter", data |-> "", seq |-> ""]
RawValue(n, d) == [id |-> n, type |-> "raw",   data |-> d,  seq |-> ""]
ComboValue(n, q) == [id |-> n, type |-> "combo", data |-> "", seq |-> q]

NoCtx  == [last_prompt_seq |-> 0, first_send |-> TRUE]
NoWait == [prev |-> 0, cur |-> 0, until |-> 0, ahead |-> FALSE, entered |-> FALSE]
NoTx   == [data |-> "", i |-> 0, per_char |-> FALSE]
NoPlay == [kind |-> "none", key |-> ""]
NoSend == [op |-> "none", text |-> ""]

\* the dump slots the model keeps (the program has the ten digits)
DumpDigits == {"0", "1", "2"}
NoBatch == [pairs |-> <<>>, i |-> 0, stats |-> <<>>, first |-> 0]

\* no stored dump, no compare record, no compare in progress
DumpIdle ==
  /\ i2c_dump_slots = [d \in DumpDigits |-> NoDump]
  /\ dumps_file = [d \in DumpDigits |-> NoDump]
  /\ dumpcmp_results = <<>> /\ results_file = <<>>
  /\ cmp_history = <<>> /\ history_file = <<>>
  /\ batch = NoBatch /\ matrices = <<>>
  /\ stored = [res |-> 0, hist |-> 0, cmds |-> 0]
  /\ committed = <<>>
  /\ disk = "sound" /\ wrote = "none" /\ alive = TRUE

\* no playback and no send in progress, default flags, empty macro registries
PlayIdle ==
  /\ slot_cmds = [k \in SlotKeys |-> NoneValue]
  /\ global_combos = <<>>
  /\ FAST_PLAY_MODE = FALSE
  /\ SCRIPT_WAIT_PROMPT = TRUE
  /\ SCRIPT_PROMPT_TIMEOUT_SEC = 0
  /\ enter_mode = "CR"
  /\ prompt_lock = "free" /\ send_lock = "free"
  /\ rx = [pc |-> "idle", chunk |-> ""]
  /\ pc = [t \in Threads |-> "idle"]
  /\ tx = [t \in Threads |-> NoTx]
  /\ stack = <<>> /\ visited = {} /\ script_ctx = NoCtx /\ pending = NoSend
  /\ wait = NoWait /\ emitted = <<>> /\ waitlog = <<>> /\ ctx0 = 0 /\ invoked = NoPlay

\* the console idle, with nothing stored and nothing compared
ConsoleIdle == DumpIdle /\ PlayIdle

\* SerialReaderThread.run on one decoded chunk: inc_prompt_if_in, then _i2c_capture_feed
RxText(text) ==
  /\ prompt_seq' = inc_prompt_if_in(prompt_seq, text)
  /\ SetCapState(i2c_capture_feed(CapState, text))

(***************************************************************************)
(* SpecObserve: the receiver is handed chunks drawn from ObsChunks         *)
(***************************************************************************)
ObsChunks == {"i2c> ", "i2c>i2c>", "~ # ls\n# ", "ok\n", "i2c", "> ", "#"}

InitObserve ==
  /\ RxInit
  /\ wire = "" /\ dev = "off" /\ run = <<>> /\ fed = "" /\ observed = <<>>
  /\ ConsoleIdle

ObserveChunk(c) ==
  /\ Len(observed) < MaxObserved
  /\ RxText(c)
  /\ observed' = Append(observed, c)
  /\ UNCHANGED <<wire, dev, run, fed, consoleVars>>

NextObserve == \E c \in ObsChunks : ObserveChunk(c)

SpecObserve == InitObserve /\ [][NextObserve]_vars

(***************************************************************************)
(* The text the device sends                                               *)
(***************************************************************************)
HexLower == "0123456789abcdef"
HexUpper == "0123456789ABCDEF"

HeaderLine == "     00 01 02 03 04 05 06 07 08 09 0a 0b 0c 0d 0e 0f"
PromptLine == "i2c> "

\* how a device formats its rows: address case, row length, line ending
Styles == { [upper |-> FALSE, full |-> TRUE,  eol |-> "\n"],
            [upper |-> TRUE,  full |-> FALSE, eol |-> "\r\n"] }

\* the data row of row index i (address i0) in a style
RowLine(i, style) ==
  LET digits == IF style.upper THEN HexUpper ELSE HexLower
      d      == Ch(digits, i + 1)
  IN d \o "0:" \o
     (IF style.full
      THEN " " \o d \o "0 " \o d \o "1 " \o d \o "2 " \o d \o "3 " \o d \o "4 " \o d \o "5 "
               \o d \o "6 " \o d \o "7 " \o d \o "8 " \o d \o "9 " \o d \o "a " \o d \o "b "
               \o d \o "c " \o d \o "d " \o d \o "e " \o d \o "f"
      ELSE " " \o d \o "5")

\* lines a dump is not expected to contain
OddLines == {"", "  ", "10: zz", HeaderLine, "f0:", "Error: read failed"}


(***************************************************************************)
(* SpecRx: a device sends a dump line by line, the receiver reads chunks   *)
(*   dev.phase: "idle" (nothing sent), "rows" (inside a dump),             *)
(*              "after" (terminal row sent), "end" (prompt sent)           *)
(*   dev.next:  index of the next row, dev.odd: unexpected lines sent      *)
(***************************************************************************)

InitRx ==
  /\ RxInit
  /\ wire = "" /\ run = <<>> /\ fed = "" /\ observed = <<>>
  /\ dev \in [phase : {"idle"}, next : {0}, odd : {0}, style : Styles]
  /\ ConsoleIdle

CanEmit ==
  /\ dev.phase # "end"
  /\ Len(run) < (IF dev.odd > 0 THEN ShortRun
                 ELSE IF dev.style.full THEN MaxFullLines ELSE MaxRunLines)
  /\ Len(wire) <= MaxWire

Emit(line) ==
  /\ wire' = wire \o line \o dev.style.eol
  /\ run' = Append(run, line)

DevHeader ==
  /\ CanEmit /\ dev.phase = "idle"
  /\ Emit(HeaderLine)
  /\ dev' = [dev EXCEPT !.phase = "rows", !.next = 0]
  /\ UNCHANGED <<rxVars, fed, observed, consoleVars>>

\* the next row of the dump; the row after e0 is f0, or 00 again for a device
\* that dumps more than one page
DevRow(wrap) ==
  /\ CanEmit
  /\ \/ dev.phase = "rows"
     \/ dev.phase = "idle" /\ dev.next = 0
  /\ wrap => dev.next = 15
  /\ Emit(RowLine(IF wrap THEN 0 ELSE dev.next, dev.style))
  /\ dev' = [dev EXCEPT !.phase = IF dev.next = 15 /\ ~wrap THEN "after" ELSE "rows",
                        !.next = IF wrap THEN 1 ELSE dev.next + 1]
  /\ UNCHANGED <<rxVars, fed, observed, consoleVars>>

DevPrompt ==
  /\ CanEmit
  /\ Emit(PromptLine)
  /\ dev' = [dev EXCEPT !.phase = "end"]
  /\ UNCHANGED <<rxVars, fed, observed, consoleVars>>

DevOdd(line) ==
  /\ CanEmit /\ dev.phase \in {"idle", "rows"}
  /\ dev.odd < MaxOdd /\ Len(run) < OddWindow
  /\ Emit(line)
  /\ dev' = [dev EXCEPT !.odd = @ + 1]
  /\ UNCHANGED <<rxVars, fed, observed, consoleVars>>

\* the chunk sizes the receiver may get from ser.read
CutChoices ==
  LET nl == Find(wire, "\n", 1) IN
  {n \in {Len(wire), nl, nl - 1, 3} : 1 <= n /\ n <= Len(wire)}

\* SerialReaderThread.run, one iteration: read n characters and process them
RxCut(n) ==
  /\ n \in 1..Len(wire)
  /\ RxText(Slice(wire, 1, n))
  /\ wire' = Slice(wire, n + 1, Len(wire))
  /\ fed' = fed \o Slice(wire, 1, n)
  /\ UNCHANGED <<dev, run, observed, consoleVars>>

NextRx ==
  \/ DevHeader
  \/ \E w \in BOOLEAN : DevRow(w)
  \/ DevPrompt
  \/ \E l \in OddLines : DevOdd(l)
  \/ \E n \in CutChoices : RxCut(n)

SpecRx == InitRx /\ [][NextRx]_vars

(***************************************************************************)
(* SpecChunk: a text is cut into chunks in every way                       *)
(***************************************************************************)
TextLines == {"00: 1f\n", "f0: 2A\r\n", "i2c> \n", "\n", "zz\n"}
TextHeads == {"", HeaderLine \o "\n"}
TextTails == {"F0: 0"}

RECURSIVE Join(_)
Join(ls) == IF ls = <<>> THEN "" ELSE Head(ls) \o Join(Tail(ls))

ChunkTexts ==
  {h \o Join(ls) \o t : h \in TextHeads, t \in TextTails,
                         ls \in UNION {[1..k -> TextLines] : k \in 0..MaxTextLines}}

InitChunk ==
  /\ RxInit
  /\ wire \in ChunkTexts
  /\ dev = "off" /\ run = <<>> /\ fed = "" /\ observed = <<>>
  /\ ConsoleIdle

NextChunk == \E n \in 1..MaxChunk : RxCut(n)

SpecChunk == InitChunk /\ [][NextChunk]_vars

(***************************************************************************)
(* SpecBare: a text that begins with a bare first row is cut into chunks   *)
(***************************************************************************)
BareFirst == {"00: 1f 2b\n", "00: zz\r\n", "00:\t\n"}
BareLines == {"10: 3C\n", "f0: 7e\n", "i2c> \n", NO_HEADER \o "\n", HeaderLine \o "\n"}

BareTexts ==
  {f \o Join(ls) : f \in BareFirst,
                   ls \in UNION {[1..k -> BareLines] : k \in 0..(MaxTextLines - 1)}}

InitBare ==
  /\ RxInit
  /\ wire \in BareTexts
  /\ dev = "off" /\ run = <<>> /\ fed = "" /\ observed = <<>>
  /\ ConsoleIdle

SpecBare == InitBare /\ [][NextChunk]_vars

(***************************************************************************)
(* SpecPlay: the hotkey thread plays slots and digit combos, the command   *)
(* loop sends typed lines, the receiver counts prompts, time passes        *)
(***************************************************************************)
Digits      == {"1"}
TypedLines  == {"ls"}
PlayChunks  == {"ok\r\ni2c> \r\n", "ok\r\n"}

SlotId(k) == IF k = "a" THEN 1 ELSE 2

\* the slot registry with value va in slot a and vb in slot b
Reg(va, vb) == [k \in SlotKeys |-> IF k = "a" THEN va ELSE vb]

\* the digit registry with sequence q under every digit
Digit(q) == [d \in Digits |-> q]

\* registries as /rawK, /enterK, /comboK and /gcomboN leave them: a combo
\* that names itself before another member, two combos that name each other,
\* a combo that plays one slot twice, an empty slot
CyclicScenarios ==
  { [slots |-> Reg(ComboValue(1, "ab"), RawValue(2, "x")), combos |-> Digit("ab")],
    [slots |-> Reg(ComboValue(1, "ba"), ComboValue(2, "a")), combos |-> Digit("ab")],
    [slots |-> Reg(ComboValue(1, "bb"), RawValue(2, "x")), combos |-> Digit("a")],
    [slots |-> Reg(NoneValue, EnterValue(2)), combos |-> Digit("ab")] }

\* ... and a slot of two lines next to an Enter slot
Scenarios ==
  CyclicScenarios \cup
    { [slots |-> Reg(RawValue(1, "x\ny"), RawValue(2, "z")), combos |-> Digit("ab")] }

\* /fastplay, /promptwait, /promptime and /enter settings; the timeout is read
\* only with fast play off and prompt waiting on
Settings ==
  {[fast |-> FALSE, waiton |-> TRUE, timeout |-> t, enter |-> "CR"] : t \in 0..MaxTimeout}
    \cup {[fast |-> TRUE, waiton |-> TRUE, timeout |-> MaxTimeout, enter |-> "CR"],
          [fast |-> FALSE, waiton |-> FALSE, timeout |-> MaxTimeout, enter |-> "CR"],
          [fast |-> FALSE, waiton |-> TRUE, timeout |-> MaxTimeout, enter |-> "NONE"]}

\* the state after main has loaded the registries and the user configuration, the
\* registries being one of scs and the configuration one of cfgs
InitPlayWith(scs, cfgs) ==
  /\ RxInit
  /\ DumpIdle
  /\ wire = "" /\ dev = "off" /\ run = <<>> /\ fed = "" /\ observed = <<>>
  /\ \E sc \in scs : slot_cmds = sc.slots /\ global_combos = sc.combos
  /\ \E cfg \in cfgs :
       /\ FAST_PLAY_MODE = cfg.fast
       /\ SCRIPT_WAIT_PROMPT = cfg.waiton
       /\ SCRIPT_PROMPT_TIMEOUT_SEC = cfg.timeout
       /\ enter_mode = cfg.enter
  /\ prompt_lock = "free" /\ send_lock = "free"
  /\ rx = [pc |-> "idle", chunk |-> ""]
  /\ pc = [t \in Threads |-> "idle"]
  /\ tx = [t \in Threads |-> NoTx]
  /\ stack = <<>> /\ visited = {} /\ script_ctx = NoCtx /\ pending = NoSend
  /\ wait = NoWait /\ emitted = <<>> /\ waitlog = <<>> /\ ctx0 = 0 /\ invoked = NoPlay

InitPlay == InitPlayWith(Scenarios, Settings)

UnchangedRxEnv == UNCHANGED <<i2c_capture_buffer_fragment, i2c_capture_active, i2c_capture_lines,
                              last_captured_dump, captured_log, envVars>>

\* the receiver thread

\* SerialReaderThread.run: a chunk was read and decoded; inc_prompt_if_in
\* takes the lock only when the chunk holds a marker, otherwise the chunk
\* goes straight to _i2c_capture_feed
RxRead(chunk) ==
  /\ rx.pc = "idle"
  /\ any_prompt_in(chunk) => prompt_seq < MaxPrompts
  /\ IF Len(PROMPT_PATTERNS) > 0 /\ any_prompt_in(chunk)
     THEN /\ rx' = [pc |-> "inc", chunk |-> chunk]
          /\ UNCHANGED rxVars
     ELSE /\ rx' = [pc |-> "idle", chunk |-> ""]
          /\ SetCapState(i2c_capture_feed(CapState, chunk))
          /\ UNCHANGED prompt_seq
  /\ UNCHANGED <<envVars, cfgVars, lockVars, pc, tx, playVars>>

\* inc_prompt_if_in: "with prompt_lock:" entered
RxAcquire ==
  /\ rx.pc = "inc" /\ prompt_lock = "free"
  /\ prompt_lock' = "rx"
  /\ rx' = [rx EXCEPT !.pc = "locked"]
  /\ UNCHANGED <<rxVars, envVars, cfgVars, send_lock, pc, tx, playVars>>

\* inc_prompt_if_in: prompt_seq += 1 and the lock released
RxIncrement ==
  /\ rx.pc = "locked"
  /\ prompt_seq' = prompt_seq + 1
  /\ prompt_lock' = "free"
  /\ rx' = [rx EXCEPT !.pc = "feed"]
  /\ UNCHANGED <<cfgVars, send_lock, pc, tx, playVars>>
  /\ UnchangedRxEnv

\* _i2c_capture_feed(text), after inc_prompt_if_in returned
RxFeed ==
  /\ rx.pc = "feed"
  /\ SetCapState(i2c_capture_feed(CapState, rx.chunk))
  /\ rx' = [pc |-> "idle", chunk |-> ""]
  /\ UNCHANGED <<prompt_seq, envVars, cfgVars, lockVars, pc, tx, playVars>>

\* send_bytes

\* the position a thread returns to when send_bytes is done
AfterSend(t) == IF t = "hot" THEN "loop" ELSE "idle"

\* send_bytes(data, safe): the per-character decision, lines 699-703
PerChar(data, safe) ==
  LET per_char_delay == IF CHAR_DELAY_MS > 0 THEN CHAR_DELAY_MS
                        ELSE IF safe THEN SAFE_SCRIPT_CHAR_DELAY_MS ELSE 0
  IN per_char_delay > 0 /\ Len(data) > 1

\* send_bytes entered by thread t: "if not data: return", else the first write is next
BeginSend(t, data, safe) ==
  IF data = ""
  THEN /\ pc' = [pc EXCEPT ![t] = AfterSend(t)]
       /\ tx' = [tx EXCEPT ![t] = NoTx]
  ELSE /\ pc' = [pc EXCEPT ![t] = "s_acq"]
       /\ tx' = [tx EXCEPT ![t] = [data |-> data, i |-> 1, per_char |-> PerChar(data, safe)]]

\* "with send_lock:" may be entered
SendLockIgnored(t) == TRUE
SendLockFree(t) == send_lock = "free"

\* "with send_lock:" entered, ser.write started
SendAcquire(t) ==
  /\ pc[t] = "s_acq" /\ SendLockFree(t)
  /\ send_lock' = t
  /\ pc' = [pc EXCEPT ![t] = "s_writing"]
  /\ UNCHANGED <<rxVars, envVars, cfgVars, prompt_lock, rx, tx, playVars>>

\* ser.write and ser.flush done, the lock released; in per-character mode the
\* next byte follows after the delay
SendWritten(t) ==
  /\ pc[t] = "s_writing"
  /\ send_lock' = "free"
  /\ IF tx[t].per_char /\ tx[t].i < Len(tx[t].data)
     THEN /\ tx' = [tx EXCEPT ![t].i = @ + 1]
          /\ pc' = [pc EXCEPT ![t] = "s_acq"]
     ELSE /\ tx' = [tx EXCEPT ![t] = NoTx]
          /\ pc' = [pc EXCEPT ![t] = AfterSend(t)]
  /\ UNCHANGED <<rxVars, envVars, cfgVars, prompt_lock, rx, playVars>>

\* the command loop: a typed line ("" is the blank line, sent by send_enter_only)
TypeLine(line) ==
  /\ pc["cmd"] = "idle"
  /\ BeginSend("cmd", line \o line_suffix(enter_mode), FALSE)
  /\ UNCHANGED <<rxVars, envVars, cfgVars, lockVars, rx, playVars>>

\* playback on the hotkey thread: play_slot_recursive as an explicit call stack.
\* A frame is one call in progress:
\*   kind  "root"  the loop of play_slot / run_global_combo over the top-level keys
\*         "combo" the for loop over v["seq"]
\*         "leaf"  the sends of an enter or raw slot, ops = what it sends
\*   i     the next position in seq or ops, depth and id = id(v) of the call
\*   cyc   history: a member of this frame's sequence was found in visited
Frame(kind, id, depth, seq, ops) ==
  [kind |-> kind, id |-> id, depth |-> depth, seq |-> seq, ops |-> ops, i |-> 1, cyc |-> FALSE]

Top == stack[Len(stack)]
SetTop(f) == [stack EXCEPT ![Len(stack)] = f]
Pop == SubSeq(stack, 1, Len(stack) - 1)

\* play_slot(k) / run_global_combo(d) entered: ScriptContext() is next
StartPlayback(kind, key, seq) ==
  /\ pc["hot"] = "idle"
  /\ pc' = [pc EXCEPT !["hot"] = "ctx_lock"]
  /\ stack' = <<Frame("root", 0, 0, seq, <<>>)>>
  /\ visited' = {}
  /\ script_ctx' = NoCtx /\ pending' = NoSend /\ wait' = NoWait
  /\ emitted' = <<>> /\ waitlog' = <<>> /\ ctx0' = 0
  /\ invoked' = [kind |-> kind, key |-> key]
  /\ UNCHANGED <<rxVars, envVars, cfgVars, lockVars, rx, tx>>

\* play_slot(k), called by the hotkey thread
PlaySlot(k) == k \in DOMAIN slot_cmds /\ StartPlayback("slot", k, k)

\* run_single_combo_via_hotkey(d) -> run_global_combo(d)
RunGlobalCombo(d) == d \in DOMAIN global_combos /\ StartPlayback("digit", d, global_combos[d])

\* the holder of prompt_lock when get_prompt_seq returns to thread t
HeldAfterRead(t) == t
ReleasedAfterRead(t) == "free"

\* ScriptContext.__init__ with the counter value it read
NewCtxAlreadySent(seq) == [last_prompt_seq |-> seq, first_send |-> FALSE]
NewCtx(seq) == [last_prompt_seq |-> seq, first_send |-> TRUE]

\* ScriptContext.__init__: get_prompt_seq() takes the lock ...
CtxLock ==
  /\ pc["hot"] = "ctx_lock" /\ prompt_lock = "free"
  /\ prompt_lock' = "hot"
  /\ pc' = [pc EXCEPT !["hot"] = "ctx_read"]
  /\ UNCHANGED <<rxVars, envVars, cfgVars, send_lock, rx, tx, playVars>>

\* ... reads the counter and releases it
CtxRead ==
  /\ pc["hot"] = "ctx_read"
  /\ prompt_lock' = ReleasedAfterRead("hot")
  /\ script_ctx' = NewCtx(prompt_seq)
  /\ ctx0' = prompt_seq
  /\ pc' = [pc EXCEPT !["hot"] = "loop"]
  /\ UNCHANGED <<rxVars, envVars, cfgVars, send_lock, rx, tx,
                 stack, visited, pending, wait, emitted, waitlog, invoked>>

\* the set the callee sees as visited: the top-level loops pass a new set()
VisitedFor(f) == IF f.kind = "root" THEN {} ELSE visited

\* id(v) in visited
InVisited(v, vis) == v.id \in vis

\* the calling frame after a member that was not played (not a slot key, or an empty
\* slot): the for loop over the sequence goes on with the next member
GiveUp(f) == [f EXCEPT !.i = Len(f.seq) + 1]
Resume(f) == f

\* "v=slot_cmds[idx_char]": the registry after the subscription, which only reads
AfterPop(reg, c) == [reg EXCEPT ![c] = NoneValue]
AfterLookup(reg, c) == reg

\* "visited.remove(id(v))" at the end of a call
Keep(vis, id) == vis
Remove(vis, id) == vis \ {id}

\* play_slot_recursive(c, depth, vis, ctx) called from frame f, whose position
\* has been advanced: lines 975-991, up to the first send or nested call
Call(f, c, depth, vis) ==
  LET v == slot_cmds[c] IN
  /\ slot_cmds' = IF depth > DepthLimit \/ c \notin DOMAIN slot_cmds THEN slot_cmds
                  ELSE AfterLookup(slot_cmds, c)
  /\ IF depth > DepthLimit \/ c \notin DOMAIN slot_cmds \/ v.type = "none"
     THEN /\ stack' = SetTop(Resume(f))
          /\ visited' = visited
     ELSE IF InVisited(v, vis)
     THEN /\ stack' = SetTop([f EXCEPT !.cyc = TRUE])
          /\ visited' = visited
     ELSE /\ visited' = vis \cup {v.id}
          /\ stack' = Append(SetTop(f),
                        IF v.type = "combo" THEN Frame("combo", v.id, depth, v.seq, <<>>)
                        ELSE IF v.type = "enter" THEN Frame("leaf", v.id, depth, "", <<SendEnter>>)
                        ELSE Frame("leaf", v.id, depth, "", RawOps(v.data)))

\* one step of the call on top of the stack: the next member of a sequence is
\* called, the next send of a slot is prepared, or the call returns
PlayStep ==
  /\ pc["hot"] = "loop"
  /\ LET f == Top
         g == [f EXCEPT !.i = @ + 1]
     IN IF f.kind = "leaf" /\ f.i <= Len(f.ops)
        THEN /\ pending' = f.ops[f.i]
             /\ stack' = SetTop(g)
             /\ pc' = [pc EXCEPT !["hot"] = "ready"]
             /\ UNCHANGED <<visited, slot_cmds>>
        ELSE IF f.kind # "leaf" /\ f.i <= Len(f.seq)
        THEN /\ IF Ch(f.seq, f.i) \in DOMAIN slot_cmds
                THEN Call(g, Ch(f.seq, f.i), IF f.kind = "root" THEN 0 ELSE f.depth + 1,
                          VisitedFor(f))
                ELSE stack' = SetTop(Resume(g)) /\ UNCHANGED <<visited, slot_cmds>>
             /\ UNCHANGED <<pc, pending>>
        ELSE \* the loop is over: visited.remove(id(v)) and return
             /\ stack' = Pop
             /\ visited' = IF f.kind = "root" THEN visited ELSE Remove(visited, f.id)
             /\ pc' = [pc EXCEPT !["hot"] = IF Len(stack) = 1 THEN "idle" ELSE "loop"]
             /\ UNCHANGED <<pending, slot_cmds>>
  /\ UNCHANGED <<rxVars, envVars, global_combos, FAST_PLAY_MODE, SCRIPT_WAIT_PROMPT,
                 SCRIPT_PROMPT_TIMEOUT_SEC, enter_mode, dumpVars, lockVars, rx, tx,
                 script_ctx, wait, emitted, waitlog, ctx0, invoked>>

\* the ids of the calls in progress, outermost first
RECURSIVE PathIds(_)
PathIds(st) ==
  IF st = <<>> THEN <<>>
  ELSE (IF Head(st).kind = "root" THEN <<>> ELSE <<Head(st).id>>) \o PathIds(Tail(st))

\* send_line / send_enter_only hand the bytes to send_bytes(safe=True); nwaits
\* is the number of waits of this playback that have returned
EmitPending(nwaits) ==
  /\ emitted' = Append(emitted,
       [op |-> pending.op, data |-> OpBytes(pending, enter_mode), waits |-> nwaits,
        path |-> PathIds(stack),
        after_cycle |-> \E j \in DOMAIN stack : stack[j].cyc])
  /\ BeginSend("hot", OpBytes(pending, enter_mode), TRUE)

\* "self.first_send=False"
FirstSendKept(ctx) == ctx
AfterFirstSend(ctx) == [ctx EXCEPT !.first_send = FALSE]

\* "while time.time()<deadline", left = the ticks until the deadline
DeadlineNeverPasses(left) == TRUE
BeforeDeadline(left) == left > 0

\* "if cur>prev_seq"
AdvancedOrSame(cur, prev) == cur >= prev
Advanced(cur, prev) == cur > prev

\* "if FAST_PLAY_MODE: return" and "if not SCRIPT_WAIT_PROMPT: return"
WaitsUnlessFast(fast, waiton) == fast
ReturnsAtOnce(fast, waiton) == fast \/ ~waiton

\* ScriptContext.wait_ready_if_needed, up to the deadline computation of
\* wait_for_next_prompt (lines 731-737 and 333-335)
WaitReadyIfNeeded ==
  /\ pc["hot"] = "ready"
  /\ IF ReturnsAtOnce(FAST_PLAY_MODE, SCRIPT_WAIT_PROMPT)
     THEN /\ EmitPending(Len(waitlog))
          /\ UNCHANGED <<script_ctx, wait, waitlog>>
     ELSE IF script_ctx.first_send
     THEN /\ script_ctx' = AfterFirstSend(script_ctx)
          /\ EmitPending(Len(waitlog))
          /\ UNCHANGED <<wait, waitlog>>
     ELSE IF ~SCRIPT_WAIT_PROMPT
     THEN \* wait_for_next_prompt: "if not SCRIPT_WAIT_PROMPT: return prev_seq"
          /\ waitlog' = Append(waitlog,
               [prev |-> script_ctx.last_prompt_seq, ret |-> script_ctx.last_prompt_seq,
                via |-> "off", ahead |-> prompt_seq > script_ctx.last_prompt_seq,
                entered |-> FALSE, left |-> SCRIPT_PROMPT_TIMEOUT_SEC,
                seq_at_ret |-> prompt_seq])
          /\ EmitPending(Len(waitlog) + 1)
          /\ UNCHANGED <<script_ctx, wait>>
     ELSE /\ wait' = [prev |-> script_ctx.last_prompt_seq, cur |-> 0,
                      until |-> SCRIPT_PROMPT_TIMEOUT_SEC,
                      ahead |-> prompt_seq > script_ctx.last_prompt_seq, entered |-> FALSE]
          /\ pc' = [pc EXCEPT !["hot"] = "w_check"]
          /\ UNCHANGED <<script_ctx, tx, emitted, waitlog>>
  /\ UNCHANGED <<rxVars, envVars, cfgVars, lockVars, rx, stack, visited, pending, ctx0, invoked>>

\* wait_for_next_prompt: "while time.time()<deadline"
WaitCheck ==
  /\ pc["hot"] = "w_check"
  /\ IF BeforeDeadline(wait.until)
     THEN /\ pc' = [pc EXCEPT !["hot"] = "w_lock"]
          /\ wait' = [wait EXCEPT !.entered = TRUE]
     ELSE /\ pc' = [pc EXCEPT !["hot"] = "w_tlock"]
          /\ UNCHANGED wait
  /\ UNCHANGED <<rxVars, envVars, cfgVars, lockVars, rx, tx, stack, visited, script_ctx,
                 pending, emitted, waitlog, ctx0, invoked>>

\* get_prompt_seq: "with prompt_lock:" entered (in the loop, or after it)
WaitLock ==
  /\ pc["hot"] \in {"w_lock", "w_tlock"} /\ prompt_lock = "free"
  /\ prompt_lock' = "hot"
  /\ pc' = [pc EXCEPT !["hot"] = IF pc["hot"] = "w_lock" THEN "w_read" ELSE "w_tread"]
  /\ UNCHANGED <<rxVars, envVars, cfgVars, send_lock, rx, tx, playVars>>

\* the wait returns value v: ctx.last_prompt_seq is set and the send follows
WaitReturn(v, via) ==
  /\ script_ctx' = [script_ctx EXCEPT !.last_prompt_seq = v]
  /\ waitlog' = Append(waitlog,
       [prev |-> wait.prev, ret |-> v, via |-> via, ahead |-> wait.ahead,
        entered |-> wait.entered, left |-> wait.until, seq_at_ret |-> prompt_seq])
  /\ wait' = NoWait
  /\ EmitPending(Len(waitlog) + 1)

\* cur=get_prompt_seq() in the loop, and "if cur>prev_seq"
WaitRead ==
  /\ pc["hot"] = "w_read"
  /\ prompt_lock' = ReleasedAfterRead("hot")
  /\ wait' = [wait EXCEPT !.cur = prompt_seq]
  /\ pc' = [pc EXCEPT !["hot"] = IF Advanced(prompt_seq, wait.prev) THEN "w_settle" ELSE "w_poll"]
  /\ UNCHANGED <<rxVars, envVars, cfgVars, send_lock, rx, tx, stack, visited, script_ctx,
                 pending, emitted, waitlog, ctx0, invoked>>

\* time.sleep(POST_PROMPT_STABILIZE_MS/1000.0) is over: return cur
WaitSettled ==
  /\ pc["hot"] = "w_settle"
  /\ WaitReturn(wait.cur, "settle")
  /\ UNCHANGED <<rxVars, envVars, cfgVars, lockVars, rx, stack, visited, pending, ctx0, invoked>>

\* time.sleep(0.01) is over: back to the loop condition
WaitPolled ==
  /\ pc["hot"] = "w_poll"
  /\ pc' = [pc EXCEPT !["hot"] = "w_check"]
  /\ UNCHANGED <<rxVars, envVars, cfgVars, lockVars, rx, tx, playVars>>

\* the deadline has passed: "return get_prompt_seq()"
WaitTimedOut ==
  /\ pc["hot"] = "w_tread"
  /\ prompt_lock' = ReleasedAfterRead("hot")
  /\ WaitReturn(prompt_seq, "timeout")
  /\ UNCHANGED <<rxVars, envVars, cfgVars, send_lock, rx, stack, visited, pending, ctx0, invoked>>

\* the clock advances by one tick while a wait is in progress
WaitPcs == {"w_check", "w_lock", "w_read", "w_settle", "w_poll", "w_tlock", "w_tread"}
Tick ==
  /\ pc["hot"] \in WaitPcs /\ wait.until > 0
  /\ wait' = [wait EXCEPT !.until = @ - 1]
  /\ UNCHANGED <<rxVars, envVars, cfgVars, lockVars, rx, pc, tx, stack, visited, script_ctx,
                 pending, emitted, waitlog, ctx0, invoked>>

RxStep == (\E c \in PlayChunks : RxRead(c)) \/ RxAcquire \/ RxIncrement \/ RxFeed
CmdStep == (\E l \in TypedLines : TypeLine(l)) \/ SendAcquire("cmd") \/ SendWritten("cmd")
HotStep ==
  \/ \E k \in SlotKeys : PlaySlot(k)
  \/ \E d \in Digits : RunGlobalCombo(d)
  \/ CtxLock \/ CtxRead \/ PlayStep
  \/ WaitReadyIfNeeded \/ WaitCheck \/ WaitLock \/ WaitRead
  \/ WaitSettled \/ WaitPolled \/ WaitTimedOut
  \/ SendAcquire("hot") \/ SendWritten("hot")

NextPlay == RxStep \/ CmdStep \/ HotStep \/ Tick

SpecPlay == InitPlay /\ [][NextPlay]_vars

\* Scheduling: the playing thread keeps running and gets a lock that is
\* released again and again; the receiver and the typing thread leave their
\* critical sections; the clock advances while a wait is in progress.
FairPlay ==
  /\ SF_vars(HotStep)
  /\ WF_vars(Tick)
  /\ WF_vars(RxIncrement)
  /\ WF_vars(SendWritten("cmd"))

\* SpecRaw: playback of raw slots whose text has empty and blank lines, segment
\* boundaries and empty segments
RawTexts == {"x\n\ny", " \nx", "x<ENTER>"}
RawScenarios ==
  { [slots |-> Reg(RawValue(1, t), NoneValue), combos |-> Digit("a")] : t \in RawTexts }
RawSettings == {[fast |-> FALSE, waiton |-> TRUE, timeout |-> MaxTimeout, enter |-> "CR"]}

InitRaw == InitPlayWith(RawScenarios, RawSettings)

SpecRaw == InitRaw /\ [][NextPlay]_vars

\* SpecRedefine: a combo slot is defined anew by the command loop while the hotkey
\* thread plays it; the device is silent and "/promptime 0" is in force, so every
\* wait of the playback returns by its deadline without a poll
RedefineScenarios ==
  { [slots |-> Reg(ComboValue(1, "ba"), RawValue(2, "x")), combos |-> Digit("a")] }

\* id() of a dict made now: no object alive has it
FreshId ==
  LET ids == {slot_cmds[k].id : k \in SlotKeys} \cup visited
  IN 1 + CHOOSE m \in ids : \A n \in ids : n <= m

\* "/comboK seq" in the command loop: slot_cmds[key]={"type":"combo","seq":seq},
\* typed with the sequence the slot has while the play of the slot is in
\* progress (the slots file is not part of the state)
RedefineCombo(k) ==
  /\ pc["cmd"] = "idle"
  /\ k \in DOMAIN slot_cmds /\ slot_cmds[k].type = "combo"
  /\ slot_cmds[k].id \in visited
  /\ FreshId <= MaxRedefs + 2
  /\ slot_cmds' = [slot_cmds EXCEPT ![k] = ComboValue(FreshId, slot_cmds[k].seq)]
  /\ UNCHANGED <<rxVars, envVars, global_combos, FAST_PLAY_MODE, SCRIPT_WAIT_PROMPT,
                 SCRIPT_PROMPT_TIMEOUT_SEC, enter_mode, dumpVars, lockVars, threadVars>>

RedefineSettings == {[fast |-> FALSE, waiton |-> TRUE, timeout |-> 0, enter |-> "CR"]}

InitRedefine == InitPlayWith(RedefineScenarios, RedefineSettings)

NextRedefine ==
  \/ \E k \in SlotKeys : PlaySlot(k)
  \/ CtxLock \/ CtxRead \/ PlayStep
  \/ WaitReadyIfNeeded \/ WaitCheck \/ WaitLock \/ WaitTimedOut
  \/ SendAcquire("hot") \/ SendWritten("hot")
  \/ \E k \in SlotKeys : RedefineCombo(k)

SpecRedefine == InitRedefine /\ [][NextRedefine]_vars

\* SpecCombo: playback of combos with a member that is no slot key or an empty slot
ComboScenarios ==
  { [slots |-> Reg(ComboValue(1, "zb"), RawValue(2, "x")), combos |-> Digit("ab")],
    [slots |-> Reg(NoneValue, EnterValue(2)), combos |-> Digit("azb")],
    [slots |-> Reg(ComboValue(1, "bb"), EnterValue(2)), combos |-> Digit("ba")] }

InitCombo == InitPlayWith(ComboScenarios, RawSettings)

SpecCombo == InitCombo /\ [][NextPlay]_vars

\* SpecTerminate: playback under that scheduling, with the registries that
\* hold combos and the longest timeout (the countdown of a shorter one is a
\* suffix of it)
InitTerminate ==
  /\ InitPlay
  /\ \E sc \in CyclicScenarios : slot_cmds = sc.slots /\ global_combos = sc.combos
  /\ SCRIPT_PROMPT_TIMEOUT_SEC = MaxTimeout

SpecTerminate == InitTerminate /\ [][NextPlay]_vars /\ FairPlay

(***************************************************************************)
(* Dump compare: _parse_dump_to_matrix, _hex_to_bin, _dump_compare_single  *)
(***************************************************************************)
MAX_CMP_HISTORY_ENTRIES == 200
MAX_CMP_RESULTS_ENTRIES == 400

HEADER_LINE == "     00 01 02 03 04 05 06 07 08 09 0a 0b 0c 0d 0e 0f"
ROW_ADDRS == <<"00", "10", "20", "30", "40", "50", "60", "70",
               "80", "90", "a0", "b0", "c0", "d0", "e0", "f0">>
RowAddrSet == {ROW_ADDRS[i] : i \in DOMAIN ROW_ADDRS}

PLACEHOLDER == "--"
MASKED == "XX"

UpperCh(c) ==
  CASE c = "a" -> "A" [] c = "b" -> "B" [] c = "c" -> "C"
    [] c = "d" -> "D" [] c = "e" -> "E" [] c = "f" -> "F" [] OTHER -> c

\* str.split(): the maximal runs of non-whitespace characters of s from i on
RECURSIVE TokensFrom(_, _, _)
TokensFrom(s, start, i) ==
  IF i > Len(s) THEN (IF start < i THEN <<Slice(s, start, i - 1)>> ELSE <<>>)
  ELSE IF IsWs(s, i)
  THEN (IF start < i THEN <<Slice(s, start, i - 1)>> ELSE <<>>) \o TokensFrom(s, i + 1, i + 1)
  ELSE TokensFrom(s, start, i + 1)

\* re.fullmatch(r'[0-9A-Fa-f]{2}', b)
IsByteToken(b) == Len(b) = 2 /\ IsHex(b, 1) /\ IsHex(b, 2)

\* re.match(r'^([0-9A-Fa-f]{2}):\s+(.*)$', ln), for a line without a newline
IsMatrixRow(ln) == IsHex(ln, 1) /\ IsHex(ln, 2) /\ Ch(ln, 3) = ":" /\ IsWs(ln, 4)

\* the cells of one matching line: the byte tokens, padded or cut to sixteen, in upper case
RECURSIVE PadTo(_, _)
PadTo(cells, n) == IF Len(cells) >= n THEN cells ELSE PadTo(Append(cells, PLACEHOLDER), n)

\* [b.upper() for b in bytes_list]
RECURSIVE UpperAll(_)
UpperAll(cells) ==
  IF cells = <<>> THEN <<>>
  ELSE <<UpperCh(Ch(Head(cells), 1)) \o UpperCh(Ch(Head(cells), 2))>> \o UpperAll(Tail(cells))

RowCells(ln) ==
  LET toks  == TokensFrom(ln, 4, 4)
      bytes == SelectSeq(toks, IsByteToken)
      fit   == IF Len(bytes) < 16 THEN PadTo(bytes, 16) ELSE SubSeq(bytes, 1, 16)
  IN UpperAll(fit)

PlaceholderRow == PadTo(<<>>, 16)

\* the for loop of _parse_dump_to_matrix: matrix[addr] = cells, later lines win
RECURSIVE ParseRows(_, _)
ParseRows(lines, m) ==
  IF lines = <<>> THEN m
  ELSE LET ln == Head(lines) IN
       IF StartsWith(ln, NO_HEADER) \/ ~IsMatrixRow(ln)
       THEN ParseRows(Tail(lines), m)
       ELSE LET addr == LowerCh(Ch(ln, 1)) \o LowerCh(Ch(ln, 2))
            IN ParseRows(Tail(lines), (addr :> RowCells(ln)) @@ m)

\* _parse_dump_to_matrix(lines): a dict from address to sixteen cells; the fixed
\* addresses the lines have no row for get a row of placeholders
parse_dump_to_matrix(lines) ==
  ParseRows(lines, <<>>) @@ [a \in RowAddrSet |-> PlaceholderRow]

NibbleBits == <<"0000", "0001", "0010", "0011", "0100", "0101", "0110", "0111",
                "1000", "1001", "1010", "1011", "1100", "1101", "1110", "1111">>

\* _hex_to_bin(h) for a matrix cell: eight bits, or dashes when int(h,16) raises
HexToBinUngrouped(h) ==
  IF IsByteToken(h)
  THEN NibbleBits[Find("0123456789ABCDEF", UpperCh(Ch(h, 1)), 1)]
         \o NibbleBits[Find("0123456789ABCDEF", UpperCh(Ch(h, 2)), 1)]
  ELSE "--------"
hex_to_bin(h) ==
  IF IsByteToken(h)
  THEN NibbleBits[Find("0123456789ABCDEF", UpperCh(Ch(h, 1)), 1)] \o "_"
         \o NibbleBits[Find("0123456789ABCDEF", UpperCh(Ch(h, 2)), 1)]
  ELSE "----_----"

\* ' '.join(tokens)
RECURSIVE JoinSp(_)
JoinSp(toks) ==
  IF toks = <<>> THEN ""
  ELSE IF Len(toks) = 1 THEN toks[1]
  ELSE toks[1] \o " " \o JoinSp(Tail(toks))

\* f"{addr}:  {' '.join(row_tokens)}"
RowText(addr, toks) == addr \o ":  " \o JoinSp(toks)

\* "rowA[i]==rowB[i]" negated
DiffersFromPresent(x, y) == x # y /\ x # PLACEHOLDER
Differs(x, y) == x # y

\* one cell of the masked hex row of a side: "XX" where the two rows agree
ShowsOwnCell(own, other, i) == own[i]
MaskedCell(own, other, i) == IF Differs(own[i], other[i]) THEN own[i] ELSE MASKED

HexRow(own, other) == [i \in 1..16 |-> MaskedCell(own, other, i)]
BinRow(own, other) ==
  [i \in 1..16 |-> IF Differs(own[i], other[i]) THEN hex_to_bin(own[i]) ELSE MASKED]

\* the rows of one side of one view, in ROW_ADDRS order
SideRows(mOwn, mOther, bin) ==
  [k \in 1..16 |-> RowText(ROW_ADDRS[k],
                     IF bin THEN BinRow(mOwn[ROW_ADDRS[k]], mOther[ROW_ADDRS[k]])
                     ELSE HexRow(mOwn[ROW_ADDRS[k]], mOther[ROW_ADDRS[k]]))]

\* changed_bytes and changed_rows as the first loop counts them
ChangedCells(rowA, rowB) == {i \in 1..16 : Differs(rowA[i], rowB[i])}
ChangedBytes(mA, mB) ==
  LET RECURSIVE Sum(_)
      Sum(k) == IF k = 0 THEN 0
                ELSE Cardinality(ChangedCells(mA[ROW_ADDRS[k]], mB[ROW_ADDRS[k]])) + Sum(k - 1)
  IN Sum(16)
ChangedRowsPerCell(mA, mB) == ChangedBytes(mA, mB)
ChangedRows(mA, mB) ==
  Cardinality({k \in 1..16 : ChangedCells(mA[ROW_ADDRS[k]], mB[ROW_ADDRS[k]]) # {}})

\* _dump_compare_single(a, b) on the dumps da and db of the two slots, both
\* present: the counts and the lines that are printed and stored
Compare(a, da, b, db) ==
  LET mA == parse_dump_to_matrix(da)
      mB == parse_dump_to_matrix(db)
  IN [a |-> a, b |-> b,
      changed_rows  |-> ChangedRows(mA, mB),
      changed_bytes |-> ChangedBytes(mA, mB),
      hex_lines    |-> <<"hex", " disk:" \o a, HEADER_LINE>> \o SideRows(mA, mB, FALSE)
                       \o <<"disk:" \o b, HEADER_LINE>> \o SideRows(mB, mA, FALSE),
      binary_lines |-> <<"", "binary", "disk:" \o a, HEADER_LINE>> \o SideRows(mA, mB, TRUE)
                       \o <<"disk:" \o b, HEADER_LINE>> \o SideRows(mB, mA, TRUE),
      mA |-> mA, mB |-> mB]

(***************************************************************************)
(* Dump compare: records, history and their files                          *)
(***************************************************************************)
\* how a write of a file can end: written; open() fails and the file is as before;
\* json.dump fails after open() has truncated the file
Outcomes == IF disk = "sound" THEN {"ok"} ELSE {"ok", "denied", "cut"}

\* the file after "with open(path,'w') as f: json.dump(content, f)"; a file cut short
\* loads as nothing at the next start
Written(file, content, blank, o) ==
  IF o = "ok" THEN content ELSE IF o = "denied" THEN file ELSE blank

\* "except Exception as e: print(...)" in the save functions: whether the failure of
\* a write leaves the save function as an exception
RaisedOnFailure(o) == o # "ok"
Raised(o) == FALSE

\* _dump_compare_single returns None, and stores nothing, when either slot is empty
FirstPresent(da, db) == da # NoDump
BothPresent(da, db) == da # NoDump /\ db # NoDump

\* q[-n:]
LastN(q, n) == IF Len(q) > n THEN SubSeq(q, Len(q) - n + 1, Len(q)) ELSE q

\* the entry _dump_compare_single stores; n is its position among all records ever appended
\* (the timestamp of the program carries no order the model needs beyond it)
ResultEntry(c, n) ==
  [n |-> n, a |-> c.a, b |-> c.b, changed_rows |-> c.changed_rows,
   changed_bytes |-> c.changed_bytes, hex_lines |-> c.hex_lines,
   binary_lines |-> c.binary_lines]

\* what _dump_compare_single returns for a comparison that took place
Stats(c) ==
  [a |-> c.a, b |-> c.b, changed_rows |-> c.changed_rows, changed_bytes |-> c.changed_bytes]

\* _store_cmp_result on the list in memory: append, then drop all but the newest entries
store_cmp_result(res, entry) ==
  LET r == Append(res, entry)
  IN IF Len(r) > MAX_CMP_RESULTS_ENTRIES THEN LastN(r, MAX_CMP_RESULTS_ENTRIES) ELSE r

\* what save_cmp_history and save_cmp_results write of a list
SavedWhole(q, cap) == q
SavedTail(q, cap) == LastN(q, cap)

\* save_cmp_results: nothing is written while the list is empty
save_cmp_results(file, res, o) ==
  IF res = <<>> THEN file
  ELSE Written(file, SavedTail(res, MAX_CMP_RESULTS_ENTRIES), <<>>, o)

\* save_cmp_history
save_cmp_history(file, hist, o) ==
  Written(file, SavedTail(hist, MAX_CMP_HISTORY_ENTRIES), <<>>, o)

\* _dump_compare_single(a, b): the effect on the records, their file and the matrices;
\* the write of the file ends in one of the ways the storage allows
CompareSingle(a, b) ==
  LET da == i2c_dump_slots[a]
      db == i2c_dump_slots[b]
      c == Compare(a, da, b, db)
      res == store_cmp_result(dumpcmp_results, ResultEntry(c, stored.res + 1))
  IN IF BothPresent(da, db)
     THEN /\ dumpcmp_results' = res
          /\ matrices' = <<c.mA, c.mB>>
          /\ \E o \in Outcomes :
               /\ results_file' = save_cmp_results(results_file, dumpcmp_results', o)
               /\ wrote' = o
               /\ alive' = ~Raised(o)
     ELSE /\ wrote' = "none"
          /\ UNCHANGED <<dumpcmp_results, results_file, matrices, alive>>

\* the value _dump_compare_single returns once CompareSingle has acted: the stats of the
\* entry it stored, in a list, or nothing
Returned(a, b) ==
  IF BothPresent(i2c_dump_slots[a], i2c_dump_slots[b])
  THEN <<Stats(dumpcmp_results'[Len(dumpcmp_results')])>>
  ELSE <<>>

\* the entry multi_dump_compare appends; n is its position among all history entries ever
\* appended and first the position of the first record of its batch (history only)
HistoryEntry(b, n) == [n |-> n, pairs |-> b.stats, first |-> b.first]

\* the rest of the console, which the compare commands leave alone
CompareFrame ==
  UNCHANGED <<rxVars, envVars, lockVars, threadVars, slot_cmds, global_combos, FAST_PLAY_MODE,
              SCRIPT_WAIT_PROMPT, SCRIPT_PROMPT_TIMEOUT_SEC, enter_mode, i2c_dump_slots,
              dumps_file, committed, disk>>

\* "/dumpcmp a b": dump_compare
DumpCompare(a, b) ==
  /\ alive
  /\ batch = NoBatch
  /\ stored.cmds < MaxCommands
  /\ CompareSingle(a, b)
  /\ stored' = [stored EXCEPT !.res = @ + Len(Returned(a, b)), !.cmds = @ + 1]
  /\ UNCHANGED <<cmp_history, history_file, batch>>
  /\ CompareFrame

\* "/dumpcmp a b,c d": multi_dump_compare up to its loop; an empty list returns at once
MultiStart(pairs) ==
  /\ alive
  /\ batch = NoBatch
  /\ stored.cmds < MaxCommands
  /\ batch' = IF pairs = <<>> THEN NoBatch
              ELSE [pairs |-> pairs, i |-> 1, stats |-> <<>>, first |-> stored.res + 1]
  /\ stored' = [stored EXCEPT !.cmds = @ + 1]
  /\ wrote' = "none"
  /\ UNCHANGED <<dumpcmp_results, results_file, matrices, cmp_history, history_file, alive>>
  /\ CompareFrame

\* one round of the loop of multi_dump_compare
MultiCompare ==
  /\ alive
  /\ batch # NoBatch
  /\ batch.i <= Len(batch.pairs)
  /\ LET p == batch.pairs[batch.i]
     IN /\ CompareSingle(p[1], p[2])
        /\ batch' = [batch EXCEPT !.i = @ + 1, !.stats = @ \o Returned(p[1], p[2])]
        /\ stored' = [stored EXCEPT !.res = @ + Len(Returned(p[1], p[2]))]
  /\ UNCHANGED <<cmp_history, history_file>>
  /\ CompareFrame

\* multi_dump_compare after its loop: the history entry is appended and the list saved
MultiEnd ==
  /\ alive
  /\ batch # NoBatch
  /\ batch.i > Len(batch.pairs)
  /\ LET hist == Append(cmp_history, HistoryEntry(batch, stored.hist + 1))
     IN /\ cmp_history' = hist
        /\ \E o \in Outcomes :
             /\ history_file' = save_cmp_history(history_file, hist, o)
             /\ wrote' = o
             /\ alive' = ~Raised(o)
  /\ stored' = [stored EXCEPT !.hist = @ + 1]
  /\ batch' = NoBatch
  /\ UNCHANGED <<dumpcmp_results, results_file, matrices>>
  /\ CompareFrame

\* stored dumps: a header, two rows with a mixed-case byte and a token that is not a byte;
\* no header, a row with an address outside the fixed sixteen, one changed byte
DumpOne == <<HEADER_LINE, "00: 1f 2A zz 3c", "f0: 7e">>
DumpTwo == <<NO_HEADER, "00: 1F 2b", "05: aa", "F0: 7e">>
DumpRegistries ==
  { [d \in DumpDigits |-> IF d = "0" THEN DumpOne ELSE IF d = "1" THEN DumpTwo ELSE NoDump],
    [d \in DumpDigits |-> IF d = "2" THEN NoDump ELSE DumpOne] }

\* an earlier record and an earlier history entry, as load_cmp_results and load_cmp_history
\* bring them back at start-up
OldResult(n) ==
  [n |-> n, a |-> "0", b |-> "0", changed_rows |-> 0, changed_bytes |-> 0,
   hex_lines |-> <<>>, binary_lines |-> <<>>]
OldHistory(n) == [n |-> n, pairs |-> <<>>, first |-> 0]
Preloads ==
  { [res |-> 0, hist |-> 0],
    [res |-> MAX_CMP_RESULTS_ENTRIES - 1, hist |-> MAX_CMP_HISTORY_ENTRIES - 1],
    [res |-> MAX_CMP_RESULTS_ENTRIES, hist |-> MAX_CMP_HISTORY_ENTRIES] }

\* the pairs and the pair lists the commands are given
SinglePairs == { <<"0", "0">>, <<"0", "1">>, <<"1", "0">>, <<"0", "2">> }
PairLists ==
  { <<>>, << <<"0", "1">> >>, << <<"0", "1">>, <<"1", "0">> >>, << <<"0", "2">>, <<"0", "1">> >> }

InitCompare ==
  /\ RxInit
  /\ wire = "" /\ dev = "off" /\ run = <<>> /\ fed = "" /\ observed = <<>>
  /\ PlayIdle
  /\ \E reg \in DumpRegistries, pre \in Preloads :
       /\ i2c_dump_slots = reg /\ dumps_file = reg
       /\ dumpcmp_results = [n \in 1..pre.res |-> OldResult(n)]
       /\ results_file = [n \in 1..pre.res |-> OldResult(n)]
       /\ cmp_history = [n \in 1..pre.hist |-> OldHistory(n)]
       /\ history_file = [n \in 1..pre.hist |-> OldHistory(n)]
       /\ stored = [res |-> pre.res, hist |-> pre.hist, cmds |-> 0]
  /\ batch = NoBatch /\ matrices = <<>> /\ committed = <<>>
  /\ disk = "sound" /\ wrote = "none" /\ alive = TRUE

NextCompare ==
  \/ \E p \in SinglePairs : DumpCompare(p[1], p[2])
  \/ \E pairs \in PairLists : MultiStart(pairs)
  \/ MultiCompare
  \/ MultiEnd

SpecCompare == InitCompare /\ [][NextCompare]_vars

(***************************************************************************)
(* SpecClear: the compare commands and "/cmpresclear"                      *)
(***************************************************************************)
\* "/cmpresclear" answered with confirm: clear_cmp_results() empties the list and
\* calls save_cmp_results; any other answer cancels
ClearResults(confirm) ==
  /\ alive
  /\ batch = NoBatch
  /\ stored.cmds < MaxCommands
  /\ IF confirm = "yes"
     THEN /\ dumpcmp_results' = <<>>
          /\ \E o \in Outcomes :
               /\ results_file' = save_cmp_results(results_file, dumpcmp_results', o)
               /\ wrote' = IF dumpcmp_results' = <<>> THEN "none" ELSE o
               /\ alive' = ~Raised(o)
     ELSE /\ wrote' = "none"
          /\ UNCHANGED <<dumpcmp_results, results_file, alive>>
  /\ stored' = [stored EXCEPT !.cmds = @ + 1]
  /\ UNCHANGED <<cmp_history, history_file, batch, matrices>>
  /\ CompareFrame

NextClear ==
  \/ NextCompare
  \/ \E confirm \in {"yes", "no"} : ClearResults(confirm)

SpecClear == InitCompare /\ [][NextClear]_vars

(***************************************************************************)
(* SpecDump: the receiver takes a device's text line by line while         *)
(* "/dumpsave" commands store the most recent capture in dump slots        *)
(***************************************************************************)
AUTO_SAVE_I2C_DUMPS == TRUE

\* save_i2c_dumps(path, dump_dict): the new content of the file, the write ending as o
save_i2c_dumps(file, dump_dict, o) ==
  IF AUTO_SAVE_I2C_DUMPS
  THEN Written(file, dump_dict, [d \in DOMAIN dump_dict |-> NoDump], o)
  ELSE file

\* "/dumpsave d": the slots after "if _last_captured_dump: i2c_dump_slots[d]=..."
CommitAlways(slots, d, last) == [slots EXCEPT ![d] = last]
Commit(slots, d, last) == IF last # NoDump THEN [slots EXCEPT ![d] = last] ELSE slots

\* the "/dumpsave <digit>" command
DumpSave(d) ==
  /\ alive
  /\ Len(committed) < MaxSaves
  /\ committed' = Append(committed, d)
  /\ i2c_dump_slots' = Commit(i2c_dump_slots, d, last_captured_dump)
  /\ IF last_captured_dump # NoDump
     THEN \E o \in Outcomes :
            /\ dumps_file' = save_i2c_dumps(dumps_file, i2c_dump_slots', o)
            /\ wrote' = o
            /\ alive' = ~Raised(o)
     ELSE wrote' = "none" /\ UNCHANGED <<dumps_file, alive>>
  /\ UNCHANGED <<rxVars, envVars, lockVars, threadVars, slot_cmds, global_combos,
                 FAST_PLAY_MODE, SCRIPT_WAIT_PROMPT, SCRIPT_PROMPT_TIMEOUT_SEC, enter_mode,
                 dumpcmp_results, results_file, cmp_history, history_file, batch, matrices,
                 stored, disk>>

\* the receiver reads the wire up to and including the next line end
FeedLine == wire # "" /\ RxCut(Find(wire, "\n", 1))

\* a capture one row short of the overflow bound: a header and rows, no terminal row
RECURSIVE Repeat(_, _)
Repeat(t, n) == IF n = 0 THEN "" ELSE t \o Repeat(t, n - 1)
LongText == HeaderLine \o "\n" \o Repeat("10: 15\n", OverflowBound - 1)

\* what the device sends next: one more row, a dump cut short by the prompt, a full
\* headerless dump and a prompt
DumpWire ==
  "20: 25\n" \o HeaderLine \o "\r\n" \o "10: 15\r\n" \o "i2c> \n"
  \o "00: 1f\n" \o "F0: 7e\n" \o "i2c> \n"

InitDump ==
  /\ prompt_seq = 0
  /\ \E text \in {"", LongText} :
       /\ fed = text
       /\ \E st \in {i2c_capture_feed(CaptureInit, text)} :
            /\ i2c_capture_buffer_fragment = st.frag
            /\ i2c_capture_active = st.active
            /\ i2c_capture_lines = st.lines
            /\ last_captured_dump = st.last
            /\ captured_log = st.log
  /\ wire = DumpWire /\ dev = "off" /\ run = <<>> /\ observed = <<>>
  /\ PlayIdle
  /\ \E reg \in {[d \in DumpDigits |-> NoDump],
                  [d \in DumpDigits |-> IF d = "0" THEN DumpOne ELSE NoDump]} :
       i2c_dump_slots = reg /\ dumps_file = reg
  /\ dumpcmp_results = <<>> /\ results_file = <<>>
  /\ cmp_history = <<>> /\ history_file = <<>>
  /\ batch = NoBatch /\ matrices = <<>>
  /\ stored = [res |-> 0, hist |-> 0, cmds |-> 0]
  /\ committed = <<>>
  /\ disk = "sound" /\ wrote = "none" /\ alive = TRUE

NextDump ==
  \/ FeedLine
  \/ \E d \in DumpDigits : DumpSave(d)

SpecDump == InitDump /\ [][NextDump]_vars

(***************************************************************************)
(* SpecStorage: compare and "/dumpsave" commands on storage whose writes   *)
(* may fail                                                                *)
(***************************************************************************)
\* a capture the receiver has finalized before the commands are typed
StorageText == "00: 1f 2b\n" \o "f0: 7e\n"

InitStorage ==
  /\ prompt_seq = 0
  /\ fed = StorageText
  /\ \E st \in {i2c_capture_feed(CaptureInit, StorageText)} :
       /\ i2c_capture_buffer_fragment = st.frag
       /\ i2c_capture_active = st.active
       /\ i2c_capture_lines = st.lines
       /\ last_captured_dump = st.last
       /\ captured_log = st.log
  /\ wire = "" /\ dev = "off" /\ run = <<>> /\ observed = <<>>
  /\ PlayIdle
  /\ \E reg \in DumpRegistries : i2c_dump_slots = reg /\ dumps_file = reg
  /\ dumpcmp_results = <<>> /\ results_file = <<>>
  /\ cmp_history = <<>> /\ history_file = <<>>
  /\ batch = NoBatch /\ matrices = <<>>
  /\ stored = [res |-> 0, hist |-> 0, cmds |-> 0]
  /\ committed = <<>>
  /\ disk = "faulty" /\ wrote = "none" /\ alive = TRUE

NextStorage ==
  \/ DumpCompare("0", "1")
  \/ MultiStart(<< <<"1", "0">>, <<"0", "2">> >>)
  \/ MultiCompare
  \/ MultiEnd
  \/ batch = NoBatch /\ committed = <<>> /\ DumpSave("2")

SpecStorage == InitStorage /\ [][NextStorage]_vars

(***************************************************************************)
(* Properties of the receiver path                                         *)
(***************************************************************************)
\* the chunks observed so far that contain at least one marker
MarkerChunks == {i \in DOMAIN observed : Occurrences(observed[i]) # {}}

\* C1: the prompt counter never decreases, and after any sequence of chunks
\* passed to inc_prompt_if_in it equals the number of those chunks that
\* contain at least one prompt marker, however many markers a chunk holds.
C1_CounterCountsChunks ==
  /\ [](prompt_seq = Cardinality(MarkerChunks))
  /\ [][prompt_seq' >= prompt_seq]_vars

\* a chunk with two markers and a chunk with none were observed
C1_Witness ==
  /\ \E i \in DOMAIN observed : Cardinality(Occurrences(observed[i])) >= 2
  /\ \E i \in DOMAIN observed : Occurrences(observed[i]) = {}
  /\ prompt_seq = 2

\* the address of a row as the device prints row index i, in lower case
RowAddr(i) == Ch(HexLower, i + 1) \o "0:"
LineAddr(line) == LowerCh(Ch(line, 1)) \o LowerCh(Ch(line, 2)) \o Ch(line, 3)

\* everything the device sent has been read and processed
Drained == wire = ""

\* the device sent a header and the sixteen rows 00, 10, ..., f0, nothing else
FullDumpSent ==
  /\ Len(run) = 17
  /\ I2C_HEADER_RE(run[1])
  /\ \A i \in 1..16 : I2C_DATA_ROW_RE(run[i + 1]) /\ LineAddr(run[i + 1]) = RowAddr(i - 1)

\* C7: from Idle, a header followed by the sixteen valid rows 00..f0 produces
\* exactly one finalize, reason complete, whose dump is the seventeen lines in
\* input order, and leaves the machine Idle with an empty buffer.
C7_FullDumpCompletes ==
  (Drained /\ FullDumpSent) =>
     /\ captured_log = <<Report("complete", run)>>
     /\ last_captured_dump = run
     /\ ~i2c_capture_active
     /\ i2c_capture_lines = <<>>
     /\ i2c_capture_buffer_fragment = ""

C7_Witness ==
  /\ Drained /\ FullDumpSent
  /\ Len(last_captured_dump) = 17
  /\ StartsWith(run[17], "F0:")

\* the device sent a header, k rows none of which is the terminal row, then a prompt line
PartialThenPrompt(k) ==
  /\ Len(run) = k + 2
  /\ line_is_prompt_start(run[k + 2])
  /\ I2C_HEADER_RE(run[1])
  /\ \A i \in 2..(k + 1) : I2C_DATA_ROW_RE(run[i]) /\ ~IsLastAddr(run[i])

PromptInterruptResult(k) ==
  /\ captured_log = <<Report("prompt", SubSeq(run, 1, k + 1))>>
  /\ last_captured_dump = SubSeq(run, 1, k + 1)
  /\ ~i2c_capture_active
  /\ i2c_capture_lines = <<>>

\* C8 as stated: for every k, a header, k valid non-terminal rows and a prompt
\* line produce exactly one finalize, reason prompt-interrupt, whose dump is
\* the header and the k rows.
C8_AnyRowCount ==
  (Drained /\ Len(run) >= 2 /\ PartialThenPrompt(Len(run) - 2))
     => PromptInterruptResult(Len(run) - 2)

\* C8 amended: the same for k < 60 rows; from 60 rows on the overflow bound
\* finalizes the capture before the prompt line arrives.
C8_UpTo59Rows ==
  (Drained /\ Len(run) >= 2 /\ Len(run) - 2 < OverflowBound /\ PartialThenPrompt(Len(run) - 2))
     => PromptInterruptResult(Len(run) - 2)

C8_Witness ==
  /\ Drained /\ PartialThenPrompt(3)
  /\ Len(last_captured_dump) = 4

\* C9: however the text read so far was cut into chunks, the finalized dumps
\* (contents and reasons), the capture state, the buffer and the trailing
\* fragment are those of feeding the same text as one chunk.
C9_ChunkingIrrelevant == CapState = i2c_capture_feed(CaptureInit, fed)

\* several chunks were fed, one ended inside a line, and a dump was finalized
C9_Witness ==
  /\ Len(fed) > 2 * MaxChunk
  /\ i2c_capture_buffer_fragment # ""
  /\ captured_log # <<>>
  /\ i2c_capture_active

(***************************************************************************)
(* Properties of playback, waiting and sending                             *)
(***************************************************************************)
Playing == pc["hot"] # "idle"

\* C2: every playback invocation (play of a slot, run of a digit combo)
\* terminates, whatever the registries hold - combos that name themselves or
\* each other included - and whether or not the counter advances meanwhile.
C2_PlaybackTerminates == Playing ~> ~Playing

\* a playback that met a cycle and sat out a wait to its timeout has returned
C2_Witness ==
  /\ ~Playing /\ stack = <<>>
  /\ \E i \in DOMAIN emitted : emitted[i].after_cycle
  /\ \E j \in DOMAIN waitlog :
       waitlog[j].via = "timeout" /\ waitlog[j].seq_at_ret = waitlog[j].prev

\* the ids on a recursion path are pairwise different
Distinct(path) == \A i, j \in DOMAIN path : path[i] = path[j] => i = j

\* C3: when play detects a cycle at a key inside a combo sequence, the
\* re-entered slot emits nothing and nothing is emitted for the part of the
\* sequence after the detected cycle.
C3_NothingAfterCycle ==
  \A i \in DOMAIN emitted : Distinct(emitted[i].path) /\ ~emitted[i].after_cycle

\* what a wait that was called with the counter already ahead must have done
SettledAhead(w) == w.via = "settle" /\ w.ret > w.prev /\ w.ret <= w.seq_at_ret

\* what a wait during which the counter never advanced must have done
TimedOutUnchanged(w) == w.via = "timeout" /\ w.left = 0 /\ w.ret = w.prev

\* C4 as stated: for any configured timeout, a wait called while the counter
\* is already greater than n returns the current counter after the settle
\* delay, not through the timeout branch; a wait during which the counter
\* never advances returns only once the timeout has elapsed, with n.
C4_AnyTimeout ==
  \A j \in DOMAIN waitlog :
    /\ waitlog[j].ahead => SettledAhead(waitlog[j])
    /\ waitlog[j].seq_at_ret = waitlog[j].prev => TimedOutUnchanged(waitlog[j])

\* C4 as amended: the first half holds when the deadline has not passed at the
\* wait's first test of it (never so with timeout 0); otherwise the wait
\* returns the current counter through the timeout branch with no settle delay.
C4_DeadlineAhead ==
  \A j \in DOMAIN waitlog :
    /\ waitlog[j].ahead /\ waitlog[j].entered => SettledAhead(waitlog[j])
    /\ waitlog[j].ahead /\ ~waitlog[j].entered =>
         waitlog[j].via = "timeout" /\ waitlog[j].ret = waitlog[j].seq_at_ret
    /\ waitlog[j].seq_at_ret = waitlog[j].prev => TimedOutUnchanged(waitlog[j])

\* one playback saw both: a wait that found the counter ahead and settled, and
\* a wait that sat out its timeout with the counter unchanged
C4_Witness ==
  \E j, k \in DOMAIN waitlog :
    /\ waitlog[j].ahead /\ waitlog[j].entered /\ waitlog[j].via = "settle"
    /\ waitlog[k].entered /\ waitlog[k].via = "timeout"
    /\ waitlog[k].seq_at_ret = waitlog[k].prev

SleepPcs == {"w_settle", "w_poll"}
ReadPcs == {"ctx_read", "w_read", "w_tread"}

\* C5: the waiter holds prompt_lock only for each counter read, never during
\* the poll sleep or the settle delay, so the receiver can take the lock and
\* increment the counter while a playback waits.
C5_NoLockWhileSleeping ==
  /\ prompt_lock = "hot" <=> pc["hot"] \in ReadPcs
  /\ pc["hot"] \in SleepPcs => prompt_lock # "hot"
  /\ pc["hot"] \in SleepPcs /\ rx.pc = "inc" => ENABLED RxAcquire

\* the receiver is inside its critical section while the waiter sleeps
C5_Witness == pc["hot"] \in SleepPcs /\ prompt_lock = "rx" /\ rx.pc = "locked"

\* C6: port writes are mutually exclusive: every write, typed or scripted,
\* happens under the one send lock, so two threads are never both inside a
\* write.
C6_WritesExclusive ==
  \A t, u \in Threads :
    pc[t] = "s_writing" => send_lock = t /\ (pc[u] = "s_writing" => u = t)

\* the playing thread is writing while the typing thread waits for the lock
C6_Witness == pc["hot"] = "s_writing" /\ pc["cmd"] = "s_acq"

\* C10: with prompt waiting on and fast play off, the first transmission of an
\* invocation follows no wait, every later one follows exactly one wait whose
\* baseline is the previous wait's return value (for the first wait, the
\* counter read when the invocation started), and n >= 1 transmissions mean
\* n - 1 waits.
C10_OneWaitBetweenSends ==
  (~FAST_PLAY_MODE /\ SCRIPT_WAIT_PROMPT) =>
    /\ \A i \in DOMAIN emitted : emitted[i].waits = i - 1
    /\ \A j \in DOMAIN waitlog :
         waitlog[j].prev = IF j = 1 THEN ctx0 ELSE waitlog[j - 1].ret
    /\ (~Playing /\ emitted # <<>>) => Len(waitlog) = Len(emitted) - 1

\* an invocation of three transmissions has returned after two waits, the
\* second of which started from a baseline the first one had moved
C10_Witness ==
  /\ ~FAST_PLAY_MODE /\ SCRIPT_WAIT_PROMPT /\ ~Playing
  /\ Len(emitted) = 3 /\ Len(waitlog) = 2
  /\ waitlog[2].prev > ctx0

\* C11: play(key) on a slot holding the Enter variant emits exactly one
\* transmission, the line terminator alone, and performs no wait on the
\* prompt counter.
C11_EnterSlotOneSend ==
  (invoked.kind = "slot" /\ slot_cmds[invoked.key].type = "enter") =>
    /\ waitlog = <<>> /\ wait = NoWait /\ pc["hot"] \notin WaitPcs
    /\ Len(emitted) <= 1
    /\ \A i \in DOMAIN emitted :
         emitted[i].op = "enter" /\ emitted[i].data = line_suffix(enter_mode)
    /\ (~Playing => Len(emitted) = 1)

\* play of an Enter slot has returned, with waiting on and a timeout set
C11_Witness ==
  /\ invoked.kind = "slot" /\ slot_cmds[invoked.key].type = "enter" /\ ~Playing
  /\ ~FAST_PLAY_MODE /\ SCRIPT_WAIT_PROMPT /\ enter_mode = "CR"
  /\ emitted # <<>>

\* C20: with fast play on, or with prompt waiting off, no transmission of a
\* playback waits on the prompt counter: all are emitted without a call of
\* wait_for_next_prompt, whatever the counter does.
C20_NoWaitWhenFastOrOff ==
  (FAST_PLAY_MODE \/ ~SCRIPT_WAIT_PROMPT) =>
    /\ waitlog = <<>> /\ wait = NoWait /\ pc["hot"] \notin WaitPcs
    /\ \A i \in DOMAIN emitted : emitted[i].waits = 0

\* with prompt waiting off a playback of three transmissions has returned
\* while the counter stood still
C20_Witness ==
  /\ ~SCRIPT_WAIT_PROMPT /\ ~FAST_PLAY_MODE /\ ~Playing
  /\ Len(emitted) = 3 /\ prompt_seq = ctx0


(***************************************************************************)
(* Properties of dump compare and its logs                                 *)
(***************************************************************************)
\* the records of this run, as opposed to those loaded at start-up
NewResults == {k \in DOMAIN dumpcmp_results : dumpcmp_results[k].hex_lines # <<>>}
\* the sixteen rows of side A and of side B in hex_lines and in binary_lines, each after
\* the title lines, the "disk:" line and the header line of its side
HexA(e) == SubSeq(e.hex_lines, 4, 19)
HexB(e) == SubSeq(e.hex_lines, 22, 37)
BinA(e) == SubSeq(e.binary_lines, 5, 20)
BinB(e) == SubSeq(e.binary_lines, 23, 38)

\* C12: the matrix parse_dump_to_matrix returns has exactly the sixteen fixed row
\* addresses as its rows, and every row has exactly sixteen cells.
C12_SixteenRows ==
  \A i \in DOMAIN matrices :
    /\ DOMAIN matrices[i] = RowAddrSet
    /\ \A addr \in DOMAIN matrices[i] : Len(matrices[i][addr]) = 16

\* a row with every cell masked
MaskedLine(addr) == addr \o ":  XX XX XX XX XX XX XX XX XX XX XX XX XX XX XX XX"
AllMasked(rows) == Len(rows) = 16 /\ \A j \in 1..16 : rows[j] = MaskedLine(ROW_ADDRS[j])

\* C13: a comparison of a stored dump with itself reports no changed row and no changed
\* byte, and every cell of the hex and binary rows of both sides is XX.
C13_SelfCompareMasked ==
  \A k \in NewResults :
    LET e == dumpcmp_results[k]
    IN i2c_dump_slots[e.a] = i2c_dump_slots[e.b] =>
         /\ e.changed_rows = 0 /\ e.changed_bytes = 0
         /\ AllMasked(HexA(e)) /\ AllMasked(HexB(e))
         /\ AllMasked(BinA(e)) /\ AllMasked(BinB(e))

\* a slot was compared with itself, and a slot with another slot holding the same dump
C13_Witness ==
  /\ \E k \in NewResults : dumpcmp_results[k].a = dumpcmp_results[k].b
  /\ \E k \in NewResults :
       /\ dumpcmp_results[k].a # dumpcmp_results[k].b
       /\ i2c_dump_slots[dumpcmp_results[k].a] = i2c_dump_slots[dumpcmp_results[k].b]

\* C14: the comparisons of A with B and of B with A report the same counts, and the rows
\* of side A of the one are the rows of side B of the other, in the hex and binary views.
C14_Symmetric ==
  \A j, k \in NewResults :
    LET x == dumpcmp_results[j]
        y == dumpcmp_results[k]
    IN (x.a = y.b /\ x.b = y.a) =>
         /\ x.changed_bytes = y.changed_bytes
         /\ x.changed_rows = y.changed_rows
         /\ HexA(x) = HexB(y) /\ HexB(x) = HexA(y)
         /\ BinA(x) = BinB(y) /\ BinB(x) = BinA(y)

\* two different dumps were compared in both orders and bytes differ
C14_Witness ==
  \E j, k \in NewResults :
    /\ dumpcmp_results[j].a = dumpcmp_results[k].b
    /\ dumpcmp_results[j].b = dumpcmp_results[k].a
    /\ dumpcmp_results[j].a # dumpcmp_results[j].b
    /\ dumpcmp_results[j].changed_bytes > 1
    /\ HexA(dumpcmp_results[j]) # HexB(dumpcmp_results[j])

\* the file holds the newest min(count, cap) of the count entries appended, oldest first
IsNewest(file, count, cap) ==
  /\ Len(file) = IF count < cap THEN count ELSE cap
  /\ \A i \in DOMAIN file : file[i].n = count - Len(file) + i

\* C15: after any single and batch compares the record file holds at most 400 entries and
\* the history file at most 200, each the most recently appended ones in append order.
C15_LogsCappedNewest ==
  /\ Len(results_file) <= 400
  /\ Len(history_file) <= 200
  /\ IsNewest(results_file, stored.res, 400)
  /\ IsNewest(history_file, stored.hist, 200)

\* both files are full and entries of both kinds have been evicted
C15_Witness ==
  /\ Len(results_file) = 400 /\ stored.res > 400 /\ results_file[400].hex_lines # <<>>
  /\ Len(history_file) = 200 /\ stored.hist > 200

\* the pairs of a list whose two slots both hold a dump, in list order
Compared(pairs) ==
  SelectSeq(pairs, LAMBDA p : i2c_dump_slots[p[1]] # NoDump /\ i2c_dump_slots[p[2]] # NoDump)

\* the record appended as number n, if the list still holds it
RecordNo(res, n) == {k \in DOMAIN res : res[k].n = n}

\* the step in which a batch compare over the pairs ps is over: it has appended one record
\* for each of the pairs cs, in order, and one history entry summarising just these
BatchAppended(ps, cs) ==
  (batch # NoBatch /\ batch' = NoBatch) =>
    LET h == cmp_history'[Len(cmp_history')]
    IN /\ Len(cmp_history') = Len(cmp_history) + 1
       /\ stored'.res - batch.first + 1 = Len(cs)
       /\ Len(h.pairs) = Len(cs)
       /\ \A j \in 1..Len(cs) :
            /\ j <= Len(h.pairs)
            /\ h.pairs[j].a = cs[j][1] /\ h.pairs[j].b = cs[j][2]
            /\ \A k \in RecordNo(dumpcmp_results', batch.first + j - 1) :
                 /\ dumpcmp_results'[k].a = cs[j][1]
                 /\ dumpcmp_results'[k].b = cs[j][2]
                 /\ dumpcmp_results'[k].changed_rows = h.pairs[j].changed_rows
                 /\ dumpcmp_results'[k].changed_bytes = h.pairs[j].changed_bytes

\* C16 as stated: a batch compare over n pairs appends n records, one per pair in list
\* order, and one history entry whose summaries are those n pairs with their counts.
C16_OnePerPair == [][BatchAppended(batch.pairs, batch.pairs)]_vars

\* C16: a batch compare over a non-empty list appends one record per pair whose two slots
\* both hold a dump, in list order, and one history entry whose summaries are those pairs
\* with their counts; while the batch runs, and for an empty list, no history entry is added.
C16_OnePerComparedPair ==
  [][/\ BatchAppended(batch.pairs, Compared(batch.pairs))
     /\ batch' # NoBatch => cmp_history' = cmp_history
     /\ (batch = NoBatch /\ batch' = NoBatch) => cmp_history' = cmp_history]_vars

\* a batch of two pairs, one of them with an empty slot, has ended
C16_Witness ==
  /\ batch = NoBatch
  /\ \E k \in DOMAIN cmp_history :
       /\ Len(cmp_history[k].pairs) = 1
       /\ cmp_history[k].pairs[1].changed_bytes > 0
       /\ cmp_history[k].first > 0
  /\ \E k \in DOMAIN cmp_history : Len(cmp_history[k].pairs) = 2

\* C17: when the comparison of the next pair of a batch starts, the record file holds the
\* record of every pair compared so far and the history file reflects each of them.
C17_WrittenAfterEach ==
  batch # NoBatch =>
    \A j \in 1..Len(batch.stats) :
      /\ \E k \in RecordNo(results_file, batch.first + j - 1) :
           /\ results_file[k].a = batch.stats[j].a
           /\ results_file[k].b = batch.stats[j].b
      /\ history_file # <<>>
      /\ history_file[Len(history_file)].first = batch.first
      /\ j <= Len(history_file[Len(history_file)].pairs)


(***************************************************************************)
(* Properties of captures and dump slots                                   *)
(***************************************************************************)
\* the step finalizes a capture: one more "[dumps] captured" report
Finalizes == Len(captured_log') = Len(captured_log) + 1

\* C18: a finalize of any reason puts the captured lines in the most-recent-capture
\* holder and resets the capture state, the holder changes in no other way, and no step
\* of the receiver changes a dump slot or the file of the slots.
C18_FinalizeOverwritesHolderOnly ==
  [][/\ (i2c_capture_active /\ ~i2c_capture_active') => Finalizes
     /\ captured_log' # captured_log => Finalizes
     /\ Finalizes =>
          /\ last_captured_dump' = captured_log'[Len(captured_log')].dump
          /\ last_captured_dump' \in {i2c_capture_lines} \cup
                { Append(i2c_capture_lines, RStripCR(Slice(wire, 1, n - 1))) : n \in 1..Len(wire) }
          /\ ~i2c_capture_active' /\ i2c_capture_lines' = <<>>
     /\ ~Finalizes => last_captured_dump' = last_captured_dump
     /\ fed' # fed => (i2c_dump_slots' = i2c_dump_slots /\ dumps_file' = dumps_file)]_vars

\* captures were finalized for each of the three reasons while a slot held a dump
C18_Witness ==
  /\ {"complete", "prompt", "overflow"} \subseteq
       {captured_log[i].reason : i \in DOMAIN captured_log}
  /\ \E d \in DumpDigits :
       i2c_dump_slots[d] # NoDump /\ i2c_dump_slots[d] # last_captured_dump

\* C19: "/dumpsave d" with a most recent capture sets slot d to that capture, leaves the
\* other slots as they are and writes the slots to their file; without a capture it
\* changes no slot; no other step, a later finalize included, changes a slot.
C19_CommitSetsOneSlot ==
  [][IF committed' # committed
     THEN LET d == committed'[Len(committed')]
          IN IF last_captured_dump # NoDump
             THEN /\ i2c_dump_slots'[d] = last_captured_dump
                  /\ \A e \in DumpDigits \ {d} : i2c_dump_slots'[e] = i2c_dump_slots[e]
                  /\ dumps_file' = i2c_dump_slots'
             ELSE i2c_dump_slots' = i2c_dump_slots
     ELSE i2c_dump_slots' = i2c_dump_slots]_vars

\* a commit without a capture has left a loaded slot alone, and two slots kept the
\* captures committed to them through a commit to another slot and a later finalize
C19_Witness ==
  /\ Len(committed) = 3 /\ Len(captured_log) = 3
  /\ committed[1] = "0" /\ i2c_dump_slots["0"] = DumpOne
  /\ committed[2] # "0" /\ i2c_dump_slots[committed[2]] = captured_log[1].dump
  /\ committed[3] \notin {"0", committed[2]}
  /\ i2c_dump_slots[committed[3]] = captured_log[2].dump
  /\ captured_log[1].dump # captured_log[2].dump
  /\ dumps_file = i2c_dump_slots


(***************************************************************************)
(* More properties of playback                                             *)
(***************************************************************************)
\* C21: no step of the program during or around a playback changes the slot registry
\* or the digit combo registry, whether the playback completes or a branch of it
\* is given up for an empty slot, the depth limit or a cycle.
C21_RegistriesUntouched ==
  [][slot_cmds' = slot_cmds /\ global_combos' = global_combos]_vars

\* a playback of a combo that gave up a branch on a cycle and went on is over
C21_Witness ==
  /\ ~Playing /\ stack = <<>> /\ invoked.kind = "slot"
  /\ slot_cmds[invoked.key].type = "combo"
  /\ \E i \in DOMAIN emitted : emitted[i].after_cycle


(***************************************************************************)
(* Properties of failing storage                                           *)
(***************************************************************************)
\* C22: when the write after a "/dumpsave" or after a compare fails, the command still
\* returns normally and the dump slots, the record list and the history list in memory
\* hold the new value.
C22_FailedWriteKeepsMemory ==
  [][wrote' \notin {"ok", "none"} =>
       /\ alive'
       /\ committed' # committed =>
            i2c_dump_slots' = [i2c_dump_slots EXCEPT ![committed'[Len(committed')]] =
                                 last_captured_dump]
       /\ stored'.res # stored.res =>
            /\ dumpcmp_results' # <<>>
            /\ SubSeq(dumpcmp_results', 1, Len(dumpcmp_results') - 1) = dumpcmp_results
            /\ dumpcmp_results'[Len(dumpcmp_results')].n = stored'.res
            /\ dumpcmp_results'[Len(dumpcmp_results')].hex_lines # <<>>
            /\ batch # NoBatch => (batch' # NoBatch /\ batch'.i = batch.i + 1)
       /\ stored'.hist # stored.hist =>
            /\ Len(cmp_history') = Len(cmp_history) + 1
            /\ cmp_history'[Len(cmp_history')].n = stored'.hist
            /\ cmp_history'[Len(cmp_history')].pairs = batch.stats]_vars

\* writes of all three files have failed, and memory is ahead of the files
C22_Witness ==
  /\ alive /\ batch = NoBatch
  /\ committed # <<>> /\ dumps_file # i2c_dump_slots /\ i2c_dump_slots["2"] # NoDump
  /\ dumpcmp_results # <<>> /\ Len(results_file) < Len(dumpcmp_results)
  /\ cmp_history # <<>> /\ history_file = <<>>


\* the transmissions of the lines of a segment, every blank line being a terminator
RECURSIVE BlankAsEnter(_)
BlankAsEnter(lines) ==
  IF lines = <<>> THEN <<>>
  ELSE <<IF NonBlank(Head(lines)) THEN SendLine(Head(lines)) ELSE SendEnter>>
       \o BlankAsEnter(Tail(lines))

\* ... and of the segments from pi on, with a terminator at every segment boundary
RECURSIVE BoundaryAsEnter(_, _)
BoundaryAsEnter(parts, pi) ==
  IF pi > Len(parts) THEN <<>>
  ELSE BlankAsEnter(splitlines(parts[pi]))
       \o (IF pi < Len(parts) THEN <<SendEnter>> ELSE <<>>)
       \o BoundaryAsEnter(parts, pi + 1)

\* the transmissions of a playback so far are the first of ops, and all of them once
\* the playback is over
EmitsInOrder(ops) ==
  /\ Len(emitted) <= Len(ops)
  /\ \A i \in DOMAIN emitted :
       emitted[i].op = ops[i].op /\ emitted[i].data = OpBytes(ops[i], enter_mode)
  /\ ~Playing => Len(emitted) = Len(ops)

\* C23: the play of a raw slot emits, in order, a line for every non-empty line of every
\* segment, a terminator for every blank line (empty or of whitespace only) and a
\* terminator for every segment boundary, and nothing else.
C23_RawEmits ==
  (invoked.kind = "slot" /\ slot_cmds[invoked.key].type = "raw") =>
    EmitsInOrder(BoundaryAsEnter(Split(slot_cmds[invoked.key].data, TOKEN_ENTER), 1))


\* what the play of slot key c emits when called at a depth with the ids in vis on the
\* path, and what the members of a sequence emit from member i on
RECURSIVE PlayOps(_, _, _)
RECURSIVE MemberOps(_, _, _, _)
PlayOps(c, depth, vis) ==
  IF depth > DepthLimit \/ c \notin DOMAIN slot_cmds THEN <<>>
  ELSE LET v == slot_cmds[c]
       IN IF v.type = "none" \/ v.id \in vis THEN <<>>
          ELSE IF v.type = "enter" THEN <<SendEnter>>
          ELSE IF v.type = "combo" THEN MemberOps(v.seq, 1, depth + 1, vis \cup {v.id})
          ELSE RawOps(v.data)
MemberOps(seq, i, depth, vis) ==
  IF i > Len(seq) THEN <<>>
  ELSE PlayOps(Ch(seq, i), depth, vis) \o MemberOps(seq, i + 1, depth, vis)

\* C24: the play of a combo emits what its members emit when played in turn one level
\* deeper, a member that is no slot or an empty slot adding nothing; a digit combo
\* emits what the plays of its members emit in turn, and with prompt waiting in force
\* only the first transmission of them all follows no wait.
C24_ComboEmitsMembersInOrder ==
  /\ (invoked.kind = "slot" /\ slot_cmds[invoked.key].type = "combo") =>
       EmitsInOrder(MemberOps(slot_cmds[invoked.key].seq, 1, 1, {slot_cmds[invoked.key].id}))
  /\ invoked.kind = "digit" =>
       /\ EmitsInOrder(MemberOps(global_combos[invoked.key], 1, 0, {}))
       /\ (~FAST_PLAY_MODE /\ SCRIPT_WAIT_PROMPT) =>
            \A i \in DOMAIN emitted : emitted[i].waits = i - 1

\* a digit combo whose first member is a combo with a member that is no slot has played
\* both members, the second after a wait
C24_Witness ==
  /\ ~Playing /\ invoked.kind = "digit" /\ global_combos[invoked.key] = "ab"
  /\ slot_cmds["a"].seq = "zb"
  /\ Len(emitted) = 2 /\ emitted[2].waits = 1 /\ Len(waitlog) = 1

(***************************************************************************)
(* Properties of a capture without a header                                *)
(***************************************************************************)
\* the capture state had the header line come right before the text fed so far
WithHeader == i2c_capture_feed(CaptureInit, HeaderLine \o "\n" \o fed)

\* the first line of the text fed so far, once it is complete
FirstFed == RStripCR(Slice(fed, 1, Find(fed, "\n", 1) - 1))
OnlyFirstFed == Find(fed, "\n", 1) = Len(fed)

\* C25: a line "00:" + whitespace met while idle starts a capture whose buffer
\* is the sentinel followed by that line; the sentinel is no data row, and the
\* dumps and the buffer of the capture parse to the same matrices as those of
\* the same text captured after a header
C25_BareStartParsesLikeHeader ==
  /\ ~I2C_DATA_ROW_RE(NO_HEADER)
  /\ (OnlyFirstFed /\ BareFirstRow(FirstFed)) =>
        i2c_capture_active /\ i2c_capture_lines = <<NO_HEADER, FirstFed>>
  /\ LET h == WithHeader IN
     /\ Len(h.log) = Len(captured_log)
     /\ \A i \in DOMAIN captured_log :
          parse_dump_to_matrix(captured_log[i].dump) = parse_dump_to_matrix(h.log[i].dump)
     /\ parse_dump_to_matrix(i2c_capture_lines) = parse_dump_to_matrix(h.lines)

\* a headerless capture with rows after the first was finalized, and the same
\* text after a header gave a dump that begins with the header
C25_Witness ==
  /\ wire = "" /\ captured_log # <<>>
  /\ captured_log[1].dump[1] = NO_HEADER /\ Len(captured_log[1].dump) = 4
  /\ captured_log[1].reason = "complete"
  /\ WithHeader.log[1].dump[1] = HeaderLine
  /\ parse_dump_to_matrix(captured_log[1].dump)["10"][1] = "3C"

(***************************************************************************)
(* Properties of the lines of a capture                                    *)
(***************************************************************************)
\* the line the receiver completes in this step, when the characters it reads
\* end one line and hold no other
OneLine(chunk) ==
  IF Find(chunk, "\n", 1) = Len(chunk)
  THEN {RStripCR(i2c_capture_buffer_fragment \o Slice(chunk, 1, Len(chunk) - 1))}
  ELSE {}
LinesRead ==
  IF Len(wire') < Len(wire) THEN OneLine(Slice(wire, 1, Len(wire) - Len(wire'))) ELSE {}

\* the line is met while capturing and is no prompt
Captures(line) == i2c_capture_active /\ ~line_is_prompt_start(line)

\* what the buffer becomes: a data row is appended, a duplicate of the first
\* line is not, any other line is appended unless it is blank
Kept(line) ==
  IF I2C_DATA_ROW_RE(line) THEN TRUE
  ELSE IF line = i2c_capture_lines[1] THEN FALSE
  ELSE NonBlank(line)
Expected(line) == IF Kept(line) THEN Append(i2c_capture_lines, line) ELSE i2c_capture_lines

\* the buffer after the step, or the dump it was finalized into by this line
Held == IF i2c_capture_active' THEN i2c_capture_lines' ELSE last_captured_dump'

\* C26: while capturing, a line that is no prompt is appended to the buffer when
\* it is a data row, left out when it equals the first line of the buffer,
\* appended when it is any other non-blank line, and dropped when it is blank
C26_LinesRetainedInOrder ==
  [][\A line \in LinesRead : Captures(line) => Held = Expected(line)]_vars

\* the device repeated the header and sent a row: the buffer is the header and the row
C26_Witness ==
  /\ wire = "" /\ Len(run) = 3 /\ run[1] = HeaderLine /\ run[2] = HeaderLine
  /\ i2c_capture_active /\ i2c_capture_lines = <<HeaderLine, run[3]>>

\* the leading address of the line is the terminal row address, in either case
TerminalAddress(line) == Slice(line, 1, 3) \in {"f0:", "F0:"}

\* the step finalized the capture: one more report, of the dump that is now the
\* last captured one, and the machine idle with an empty buffer
FinalizedAs(reason) ==
  /\ ~i2c_capture_active' /\ i2c_capture_lines' = <<>>
  /\ captured_log' = Append(captured_log, Report(reason, last_captured_dump'))

\* C27: while capturing, a line that begins with the terminal row address, in
\* either case, finalizes the capture as complete with that line last in the
\* dump and the buffer before it kept, and the machine is idle again
C27_TerminalRowFinalizes ==
  [][\A line \in LinesRead :
        (i2c_capture_active /\ TerminalAddress(line)) =>
           /\ FinalizedAs("complete")
           /\ last_captured_dump' = Append(i2c_capture_lines, line)]_vars

\* the terminal row came right after the header, with no row before it
C27_Witness ==
  /\ wire = "" /\ run = <<HeaderLine, "f0:">>
  /\ captured_log = <<Report("complete", run)>>
  /\ ~i2c_capture_active

CellsOf(row) == TokensFrom(row, 4, 4)

\* the eight bits of a byte of two hex digits, in two groups of four
BitOf(n) == IF n % 2 = 1 THEN "1" ELSE "0"
FourBits(v) == BitOf(v \div 8) \o BitOf(v \div 4) \o BitOf(v \div 2) \o BitOf(v)
HexValue(c) == Find("0123456789ABCDEF", c, 1) - 1
EightBits(h) == FourBits(HexValue(Ch(h, 1))) \o "_" \o FourBits(HexValue(Ch(h, 2)))

\* the binary cell of a side whose cell is own: the bits of the byte; with
\* dashes, dashes where the side has the placeholder instead of a byte
ShownAsBits(cell, own, dashes) ==
  IF IsByteToken(own) THEN cell = EightBits(own)
  ELSE dashes /\ own = PLACEHOLDER /\ cell = "----_----"

\* row k of the four views of the record e of a comparison of the matrices mA and mB
RowRendered(ha, hb, ba, bb, rowA, rowB, dashes) ==
  /\ Len(ha) = 16 /\ Len(hb) = 16 /\ Len(ba) = 16 /\ Len(bb) = 16
  /\ \A i \in 1..16 :
       IF rowA[i] = rowB[i]
       THEN ha[i] = MASKED /\ hb[i] = MASKED /\ ba[i] = MASKED /\ bb[i] = MASKED
       ELSE /\ ha[i] = rowA[i] /\ hb[i] = rowB[i]
            /\ ShownAsBits(ba[i], rowA[i], dashes)
            /\ ShownAsBits(bb[i], rowB[i], dashes)

\* rows that are equal cell by cell are compared as whole lines, the others cell by cell
CellsRendered(e, mA, mB, dashes) ==
  \A k \in 1..16 :
    LET addr == ROW_ADDRS[k] IN
    IF mA[addr] = mB[addr]
    THEN /\ HexA(e)[k] = MaskedLine(addr) /\ HexB(e)[k] = MaskedLine(addr)
         /\ BinA(e)[k] = MaskedLine(addr) /\ BinB(e)[k] = MaskedLine(addr)
    ELSE /\ StartsWith(HexA(e)[k], addr \o ":") /\ StartsWith(HexB(e)[k], addr \o ":")
         /\ StartsWith(BinA(e)[k], addr \o ":") /\ StartsWith(BinB(e)[k], addr \o ":")
         /\ RowRendered(CellsOf(HexA(e)[k]), CellsOf(HexB(e)[k]),
                        CellsOf(BinA(e)[k]), CellsOf(BinB(e)[k]), mA[addr], mB[addr], dashes)

\* the newest record is the one of the comparison that parsed the two matrices
AllCellsRendered(dashes) ==
  matrices # <<>> =>
    CellsRendered(dumpcmp_results[Len(dumpcmp_results)], matrices[1], matrices[2], dashes)

\* C29 as stated: for every row address and column, a cell whose two bytes are
\* equal is XX on both sides in both views, and a cell whose bytes differ is
\* each side's own byte in the hex view and that byte's eight bits, in two
\* groups of four joined by an underscore, in the binary view.
C29_CellsAsBits == AllCellsRendered(FALSE)

\* C29: for every row address and column, a cell whose two bytes are equal is
\* XX on both sides in both views, and a cell whose bytes differ is each side's
\* own cell in the hex view and, in the binary view, that byte's eight bits in
\* two groups of four joined by an underscore, or ----_---- on a side whose
\* cell is the placeholder -- and no byte.
C29_CellsAsBitsOrDashes == AllCellsRendered(TRUE)

\* a comparison with a cell equal up to case, a cell with two different bytes
\* and a cell with a byte on one side only
C29_Witness ==
  \E k \in NewResults :
    LET e == dumpcmp_results[k]
    IN /\ i2c_dump_slots[e.a] = DumpOne /\ i2c_dump_slots[e.b] = DumpTwo
       /\ HexA(e)[1] = "00:  XX 2A 3C XX XX XX XX XX XX XX XX XX XX XX XX XX"
       /\ BinB(e)[1] = "00:  XX 0010_1011 ----_---- XX XX XX XX XX XX XX XX XX XX XX XX XX"

\* the cells <<row, column>> of the 16 x 16 in which the two matrices differ
DifferingCells(mA, mB) ==
  {c \in (1..16) \X (1..16) : mA[ROW_ADDRS[c[1]]][c[2]] # mB[ROW_ADDRS[c[1]]][c[2]]}

\* C30: the changed_bytes of a record is the number of cells of the 16 x 16 in
\* which the two dumps differ and its changed_rows the number of rows with such
\* a cell; so changed_rows <= 16, changed_bytes <= 256 and
\* changed_rows <= changed_bytes <= 16 * changed_rows
C30_CountsAreDifferingCells ==
  matrices # <<>> =>
    LET e == dumpcmp_results[Len(dumpcmp_results)]
        d == DifferingCells(matrices[1], matrices[2])
    IN /\ e.changed_bytes = Cardinality(d)
       /\ e.changed_rows = Cardinality({c[1] : c \in d})
       /\ e.changed_rows <= 16 /\ e.changed_bytes <= 256
       /\ e.changed_rows <= e.changed_bytes /\ e.changed_bytes <= 16 * e.changed_rows

\* two dumps that differ in two cells of one row were compared
C30_Witness ==
  /\ matrices # <<>> /\ matrices[1]["00"][2] = "2A" /\ matrices[2]["00"][2] = "2B"
  /\ dumpcmp_results[Len(dumpcmp_results)].changed_rows = 1
  /\ dumpcmp_results[Len(dumpcmp_results)].changed_bytes = 2

(***************************************************************************)
(* Properties of the lists of records and of history entries in memory     *)
(***************************************************************************)
\* C31: the list of records in memory never holds more than 400 entries and the
\* list of history entries in memory never more than 200, after any single and
\* batch compares.
C31_MemoryCapped ==
  /\ Len(dumpcmp_results) <= 400
  /\ Len(cmp_history) <= 200

(***************************************************************************)
(* Properties of the prompts between the transmissions of a playback       *)
(***************************************************************************)
\* the counter when transmission k of the playback was handed to send_bytes, k > 1:
\* the wait before it returned in that step
SeqAtSend(k) == waitlog[k - 1].seq_at_ret

\* C32: with prompt waiting on, fast play off and no wait ended by the timeout,
\* the receiver observed a prompt between the sending of a transmission and the
\* sending of the next: the counter at the later sending is larger. Stated for
\* the transmissions after the second, whose predecessor follows a wait too.
C32_PromptBetweenSends ==
  (SCRIPT_WAIT_PROMPT /\ ~FAST_PLAY_MODE /\ \A i \in DOMAIN waitlog : waitlog[i].via = "settle") =>
     \A k \in 3..(Len(waitlog) + 1) : SeqAtSend(k) > SeqAtSend(k - 1)

(***************************************************************************)
(* Properties of prompt detection across chunks                            *)
(***************************************************************************)
\* C33: whenever the concatenation of the chunks passed to inc_prompt_if_in holds
\* a prompt marker, the counter has advanced at least once, however the stream
\* was cut into chunks.
C33_MarkerInStreamCounted == any_prompt_in(Join(observed)) => prompt_seq >= 1

(***************************************************************************)
(* Properties of the bytes of a transmission at the port                   *)
(***************************************************************************)
\* thread t has written a byte of its transmission and has bytes of it left
MidTransmission(t) == tx[t].i > 1

\* C34: the bytes of one transmission reach the port contiguously: while a
\* thread is between the first and the last byte of its transmission, no other
\* thread writes to the port, in per-character mode as in whole-line mode.
C34_TransmissionContiguous ==
  \A t, u \in Threads : (t # u /\ MidTransmission(t)) => pc[u] # "s_writing"

(***************************************************************************)
(* Properties of a prompt met while capturing                              *)
(***************************************************************************)
\* the chunk the receiver processes in this step
ChunksRead == IF Len(wire') < Len(wire) THEN {Slice(wire, 1, Len(wire) - Len(wire'))} ELSE {}

\* a prompt marker stands at the start of a line in the chunk: at the start of
\* the chunk with no fragment of a line left over, or right after a newline
PromptAtLineStart(chunk) ==
  \E k \in DOMAIN PROMPT_PATTERNS, i \in 1..Len(chunk) :
     /\ Slice(chunk, i, i + Len(PROMPT_PATTERNS[k]) - 1) = PROMPT_PATTERNS[k]
     /\ IF i = 1 THEN i2c_capture_buffer_fragment = "" ELSE Ch(chunk, i - 1) = "\n"

\* C35: when the receiver, while capturing, processes a chunk in which a prompt
\* marker stands at the start of a line, then after that chunk (the counter has
\* advanced) the capture has been finalized and the machine is idle.
C35_PromptChunkFinalizes ==
  [][\A chunk \in ChunksRead :
        (i2c_capture_active /\ PromptAtLineStart(chunk)) =>
           /\ prompt_seq' > prompt_seq
           /\ Len(captured_log') > Len(captured_log)
           /\ ~i2c_capture_active']_vars

(***************************************************************************)
(* Properties of the record file after a clear                             *)
(***************************************************************************)
\* C36: after any appends and clears the record file holds the last (at most 400)
\* entries of the list in memory, so it is empty once the list has been cleared.
C36_FileFollowsMemory == results_file = LastN(dumpcmp_results, 400)

(***************************************************************************)
(* Properties of the visited set                                           *)
(***************************************************************************)
\* the ids of the calls of play_slot_recursive in progress
OnPath == {PathIds(stack)[i] : i \in DOMAIN PathIds(stack)}

\* the slot the loop of the call on top is about to play
NextMember ==
  IF pc["hot"] = "loop" /\ stack # <<>> /\ Top.kind # "leaf" /\ Top.i <= Len(Top.seq)
     /\ Ch(Top.seq, Top.i) \in DOMAIN slot_cmds
  THEN {slot_cmds[Ch(Top.seq, Top.i)]} ELSE {}

\* C37: the visited set holds exactly the slots of the calls in progress and is
\* empty when the playback has returned; a member that holds a slot not among
\* the calls in progress is played, whether or not it was played before.
C37_VisitedIsPath ==
  /\ [](visited = OnPath /\ (~Playing => visited = {}))
  /\ [][\A v \in NextMember :
          (v.type # "none" /\ v.id \notin OnPath /\ stack' # stack) =>
             /\ Len(stack') = Len(stack) + 1
             /\ stack'[Len(stack')].id = v.id
             /\ visited' = OnPath \cup {v.id}]_vars

\* the play of a combo that names one Enter slot twice has returned, the slot
\* having sent both times from the same path
C37_Witness ==
  /\ ~Playing /\ invoked = [kind |-> "slot", key |-> "a"]
  /\ slot_cmds["a"].seq = "bb" /\ slot_cmds["b"].type = "enter"
  /\ Len(emitted) = 2
  /\ emitted[1].path = <<1, 2>> /\ emitted[2].path = <<1, 2>>
  /\ visited = {}

(***************************************************************************)
(* Properties of the depth of a playback                                   *)
(***************************************************************************)
\* the depth argument of the call of play_slot_recursive the loop on top is about to make
NextDepth ==
  IF pc["hot"] = "loop" /\ stack # <<>> /\ Top.kind # "leaf" /\ Top.i <= Len(Top.seq)
     /\ Ch(Top.seq, Top.i) \in DOMAIN slot_cmds
  THEN {IF Top.kind = "root" THEN 0 ELSE Top.depth + 1} ELSE {}

\* C38: no call of play_slot_recursive is made with a depth above 40, so the
\* depth-limit branch is never taken, and no call in progress has a depth above 35.
C38_DepthLimitNeverReached ==
  /\ \A d \in NextDepth : d <= DepthLimit
  /\ \A j \in DOMAIN stack : stack[j].depth <= 35

(***************************************************************************)
(* Properties of the capture state and its buffer                          *)
(***************************************************************************)
\* a header line or the sentinel
StartsDump(line) == I2C_HEADER_RE(line) \/ line = NO_HEADER

\* C39: while idle the buffer is empty; while capturing the buffer is non-empty
\* and begins with a header line or the sentinel; every finalized dump is
\* non-empty and begins with a header line or the sentinel.
C39_StateAndBufferAgree ==
  /\ ~i2c_capture_active => i2c_capture_lines = <<>>
  /\ i2c_capture_active =>
       i2c_capture_lines # <<>> /\ StartsDump(i2c_capture_lines[1])
  /\ \A i \in DOMAIN captured_log :
       captured_log[i].dump # <<>> /\ StartsDump(captured_log[i].dump[1])
  /\ last_captured_dump # NoDump => StartsDump(last_captured_dump[1])

\* a capture begun by a header was finalized and left the receiver idle, and a
\* capture begun by a bare first row is in progress
C39_Witness ==
  /\ captured_log # <<>> /\ I2C_HEADER_RE(captured_log[1].dump[1])
  /\ last_captured_dump = captured_log[Len(captured_log)].dump
  /\ i2c_capture_active /\ Len(i2c_capture_lines) >= 2
  /\ i2c_capture_lines[1] = NO_HEADER

====
